---- MODULE Spec2Model ----
(***************************************************************************)
(* Voucher claim pipeline: claim coordinator (VoucherService.claimVoucher), *)
(* premium claim transaction (processClaimImmediate), queue worker         *)
(* (VoucherWorker.processJob), refund (refundVoucher), the schema's        *)
(* constraints and triggers, the cache and the sliding-window limiter.     *)
(*                                                                         *)
(* The committed contents of the store are the variable db; a transaction  *)
(* holds row locks from its SELECT ... FOR UPDATE / UPDATE until COMMIT or *)
(* ROLLBACK and its writes become visible in db at COMMIT.                 *)
(***************************************************************************)
EXTENDS Integers, Sequences, FiniteSets, TLC

\* ------------------------------------------------------------------ bounds
MaxOps == 3          \* client calls (claim, refund) and cache events in one behaviour
MaxInFlight == 2     \* calls and jobs (claim, worker job, refund) running at the same time
MaxAttempts == 4     \* checkRateLimit calls of the user in one behaviour
MaxCalls == 2        \* checkRateLimit calls running at the same time
RLMax == 2           \* maxRequests of the limiter exercised alone
RLWindow == 1        \* windowSeconds of the limiter exercised alone
IPMax == 2                       \* maxRequests of the checkIPRateLimit calls
IPWindow == 1                    \* their windowSeconds
NumPosts == 11       \* claim POSTs the client sends
StartTime == 100000  \* Date.now() when the first request arrives
MaxExecutes == 8     \* breaker.execute calls in one behaviour

\* ------------------------------------------------------- program constants
JobAttempts == 3                 \* queue.ts defaultJobOptions.attempts
MiddlewareMax == 10              \* rateLimitMiddleware(10, 60) on POST /claim
MiddlewareWindow == 60
ServiceMax == 10                 \* checkRateLimit(userId, 10, 60) in claimVoucher
ServiceWindow == 60
CodeMinLen == 6                  \* isValidVoucherCodeFormat
CodeMaxLen == 50                 \* isValidVoucherCodeFormat

\* ------------------------------------------------------------- population
Users == {"u1", "u2", "u3"}
Codes == {"cA", "cB", "cC", "cD", "cExpired", "cBad"}
Keys == {1, 2, 3}                \* idempotency keys the clients use
\* the users, codes and keys of the clients of the mixed workload
SomeUsers == {"u1", "u2"}
SomeCodes == {"cA"}
SomeKeys == {1, 2}
\* the users of the clients that fire a burst of parallel claims
BurstUsers == {"u1", "u3"}
SeedUsage == {0, 1}              \* usage_count a code row starts with
Reqs == 1..MaxInFlight           \* slots of running claimVoucher calls
Refunds == 1..MaxInFlight        \* slots of running refundVoucher calls
ClaimIds == 1..(MaxOps + 1)
Calls == 1..MaxCalls             \* slots of running checkRateLimit calls
Execs == {1, 2}                  \* slots of running breaker.execute calls
\* the instants at which the limiter exercised alone is called
Instants == {StartTime, StartTime + 1, StartTime + 999, StartTime + 1000,
             StartTime + 1001}
\* the instants at which the breaker exercised alone is called
BreakerInstants == {StartTime + 1, StartTime + 29999, StartTime + 30000,
                    StartTime + 30001, StartTime + 60001}
PostGaps == {1}                  \* ms between a response and the next POST
CallGaps == {0, 1}               \* ms between the two Date.now() of one POST

\* users table: the columns no operation of the pipeline writes
voucher_limit == [u \in Users |-> IF u = "u2" THEN 2 ELSE 1]
is_premium == [u \in Users |-> u = "u1"]
user_is_active == [u \in Users |-> TRUE]

\* voucher_codes table: the columns no operation of the pipeline writes
\* the spelling of each code a client sends; cBad is not a well-formed code
\* and has no row
code_text ==
  [c \in Codes |->
     CASE c = "cA" -> <<"S", "U", "M", "M", "E", "R", "2", "0", "2", "4">>
       [] c = "cB" -> <<"F", "L", "A", "S", "H", "2", "0">>
       [] c = "cC" -> <<"W", "I", "N", "T", "E", "R", "2", "0", "2", "4">>
       [] c = "cD" -> <<"W", "E", "L", "C", "O", "M", "E", "1", "0">>
       [] c = "cExpired" -> <<"E", "X", "P", "I", "R", "E", "D", "2", "0", "2", "3">>
       [] OTHER -> <<"s", "u", "m", "m", "e", "r">>]
code_exists == [c \in Codes |-> c # "cBad"]
usage_limit == [c \in Codes |-> IF c = "cB" THEN 1 ELSE 4]
code_is_active == [c \in Codes |-> TRUE]
NoDate == -1                     \* a timestamp column that is NULL
valid_from == [c \in Codes |-> StartTime - 2000]
expires_at == [c \in Codes |-> IF c = "cExpired" THEN StartTime - 1000
                                                  ELSE NoDate]
allowed_user_ids == [c \in Codes |-> {}]

CodeChars == {"A", "B", "C", "D", "E", "F", "G", "H", "I", "J", "K", "L", "M",
              "N", "O", "P", "Q", "R", "S", "T", "U", "V", "W", "X", "Y", "Z",
              "0", "1", "2", "3", "4", "5", "6", "7", "8", "9", "-"}

\* --------------------------------------------------------------- helpers
Max(a, b) == IF a >= b THEN a ELSE b

NoCount == -1                                  \* redis GET reply null
NoResult == [status |-> "none", vouchersRemaining |-> 0]
Free == <<"free", 0>>
NoHeader == -1                                 \* the response has no such header
Min(S) == CHOOSE x \in S : \A y \in S : x <= y
Ceil(a, b) == -((-a) \div b)                   \* Math.ceil(a / b)

VARIABLES
  db,            \* committed rows: users, voucher_codes, voucher_claims, audit log
  userLock,      \* row lock on users(id)
  codeLock,      \* row lock on voucher_codes(code)
  claimLock,     \* row lock on voucher_claims(id)
  countCache,    \* user:{id}:vouchers
  resultCache,   \* claim:result:{key}
  jobs,          \* the voucher-claims queue, by job id
  req,           \* claimVoucher calls
  issued,        \* number of client calls and cache events so far
  ref,           \* refundVoucher calls
  breaker,       \* VoucherService.dbCircuitBreaker
  usage0,        \* history: usage_count of each code before the first claim
  clock,         \* Date.now() and the key-value store's clock, in ms
  zset,          \* the sorted set rate_limit:user:{id} of one user
  zexpire,       \* the time at which that key expires
  calls,         \* checkRateLimit calls in progress
  rlLog,         \* history: the finished checkRateLimit calls and their verdicts
  http,          \* the claim POST being served
  responses,     \* history: the responses to the POSTs served so far
  ip,            \* rate_limit:ip:{addr} of one address and the calls counting on it
  exec,          \* calls of the breaker's execute made on their own
  probe          \* a check of VoucherService made on its own: input and outcome

storeVars == <<db, userLock, codeLock, claimLock, countCache, resultCache,
               jobs, req, issued, ref, breaker, usage0>>
limiterVars == <<clock, zset, zexpire, calls, rlLog, http, responses, ip>>
vars == <<storeVars, limiterVars, exec, probe>>


\* ------------------------------------------------------------ the schema
\* CHECK (vouchers_claimed >= 0), CHECK (vouchers_claimed <= voucher_limit)
\* and the trigger enforce_voucher_limit, evaluated on a users row
UserChecksOk(d, u) ==
  /\ d.vouchers_claimed[u] >= 0
  /\ d.vouchers_claimed[u] <= voucher_limit[u]

\* a voucher_codes table without the two CHECK constraints on usage_count
CodeChecksOff(d, c) == TRUE

\* CHECK (usage_count >= 0), CHECK (usage_count <= usage_limit)
CodeChecksOk(d, c) ==
  /\ d.usage_count[c] >= 0
  /\ d.usage_count[c] <= usage_limit[c]

\* trigger increment_voucher_usage AFTER INSERT ON voucher_claims
increment_voucher_code_usage(d, row) ==
  IF row.status = "success" /\ row.voucher_code \in Codes
  THEN [d EXCEPT !.usage_count[row.voucher_code] = @ + 1,
                 !.is_used[row.voucher_code] =
                     IF d.usage_count[row.voucher_code] + 1
                          >= usage_limit[row.voucher_code]
                     THEN TRUE ELSE @]
  ELSE d

\* trigger log_voucher_claim AFTER INSERT ON voucher_claims
log_claim_to_audit(d, row, id) ==
  [d EXCEPT !.voucher_audit_log = Append(@,
     [action |-> IF row.status = "success" THEN "CLAIM_SUCCESS"
                                           ELSE "CLAIM_DENIED",
      user_id |-> row.user_id, voucher_code |-> row.voucher_code,
      claim_id |-> id])]

\* INSERT INTO voucher_claims (...) VALUES (..., 'success', request_id),
\* with both AFTER INSERT triggers
InsertClaim(d, u, c, k) ==
  LET row == [user_id |-> u, voucher_code |-> c, status |-> "success",
              request_id |-> k, refunded_at |-> FALSE]
      d1 == [d EXCEPT !.voucher_claims = Append(@, row)]
      d2 == increment_voucher_code_usage(d1, row)
  IN  log_claim_to_audit(d2, row, Len(d1.voucher_claims))

\* UPDATE users SET vouchers_claimed = vouchers_claimed + 1
UpdateUserClaimed(d, u) ==
  [d EXCEPT !.vouchers_claimed[u] = @ + 1]

\* UPDATE voucher_codes SET usage_count = usage_count + 1, is_used = ...,
\* used_by = ... (premium path)
UpdateVoucherUsage(d, c, u) ==
  [d EXCEPT !.usage_count[c] = @ + 1,
            !.is_used[c] = IF d.usage_count[c] + 1 >= usage_limit[c]
                           THEN TRUE ELSE @,
            !.used_by[c] = IF usage_limit[c] = 1 THEN u ELSE @]

\* UPDATE voucher_codes SET usage_count = usage_count + 1, is_used = ...
\* (worker path: used_by is not written)
UpdateVoucherUsageWorker(d, c) ==
  [d EXCEPT !.usage_count[c] = @ + 1,
            !.is_used[c] = IF d.usage_count[c] + 1 >= usage_limit[c]
                           THEN TRUE ELSE @]

\* SELECT id FROM voucher_claims WHERE user_id = u AND voucher_code = c
\*   AND status = 'success'
ExistingClaim(d, u, c) ==
  \E i \in 1..Len(d.voucher_claims) :
     /\ d.voucher_claims[i].user_id = u
     /\ d.voucher_claims[i].voucher_code = c
     /\ d.voucher_claims[i].status = "success"

\* the three writes of the premium claim transaction, statement by statement;
\* a statement that violates a CHECK raises and the transaction rolls back
PremiumWrites(d, u, c, k) ==
  LET d1 == UpdateUserClaimed(d, u)
      d2 == UpdateVoucherUsage(d1, c, u)
      d3 == InsertClaim(d2, u, c, k)
  IN  [ok |-> UserChecksOk(d1, u) /\ CodeChecksOk(d2, c) /\ CodeChecksOk(d3, c),
       db |-> d3]

\* the three writes of the worker's claim transaction
WorkerWrites(d, u, c, k) ==
  LET d1 == UpdateUserClaimed(d, u)
      d2 == UpdateVoucherUsageWorker(d1, c)
      d3 == InsertClaim(d2, u, c, k)
  IN  [ok |-> UserChecksOk(d1, u) /\ CodeChecksOk(d2, c) /\ CodeChecksOk(d3, c),
       db |-> d3]

\* a refund whose UPDATE users adds one instead of subtracting one
RefundWritesIncrement(d, id) ==
  LET claim == d.voucher_claims[id]
      d1 == [d EXCEPT !.voucher_claims[id].status = "refunded",
                      !.voucher_claims[id].refunded_at = TRUE]
      d2 == [d1 EXCEPT !.vouchers_claimed[claim.user_id] = @ + 1]
      d3 == [d2 EXCEPT !.usage_count[claim.voucher_code] = Max(0, @ - 1),
                       !.is_used[claim.voucher_code] = FALSE]
  IN  [d3 EXCEPT !.voucher_audit_log = Append(@,
         [action |-> "REFUND", user_id |-> claim.user_id,
          voucher_code |-> claim.voucher_code, claim_id |-> id])]

\* a refund that leaves the users row alone
RefundWritesNoUser(d, id) ==
  LET claim == d.voucher_claims[id]
      d1 == [d EXCEPT !.voucher_claims[id].status = "refunded",
                      !.voucher_claims[id].refunded_at = TRUE]
      d3 == [d1 EXCEPT !.usage_count[claim.voucher_code] = Max(0, @ - 1),
                       !.is_used[claim.voucher_code] = FALSE]
  IN  [d3 EXCEPT !.voucher_audit_log = Append(@,
         [action |-> "REFUND", user_id |-> claim.user_id,
          voucher_code |-> claim.voucher_code, claim_id |-> id])]

\* the four writes of the refund transaction
RefundWrites(d, id) ==
  LET claim == d.voucher_claims[id]
      d1 == [d EXCEPT !.voucher_claims[id].status = "refunded",
                      !.voucher_claims[id].refunded_at = TRUE]
      d2 == [d1 EXCEPT !.vouchers_claimed[claim.user_id] = Max(0, @ - 1)]
      d3 == IF claim.voucher_code \in Codes
            THEN [d2 EXCEPT !.usage_count[claim.voucher_code] = Max(0, @ - 1),
                            !.is_used[claim.voucher_code] = FALSE]
            ELSE d2
  IN  [d3 EXCEPT !.voucher_audit_log = Append(@,
         [action |-> "REFUND", user_id |-> claim.user_id,
          voucher_code |-> claim.voucher_code, claim_id |-> id])]

\* ------------------------------------------------------ VoucherService
\* a format check that accepts every string
isValidVoucherCodeFormatAny(text) == TRUE

isValidVoucherCodeFormat(text) ==
  /\ Len(text) >= CodeMinLen
  /\ Len(text) <= CodeMaxLen
  /\ \A i \in 1..Len(text) : text[i] \in CodeChars

\* getVoucherCode: the committed row of the code, NoRow when there is none
NoRow == [found |-> FALSE]
getVoucherCode(d, c) ==
  IF ~code_exists[c] THEN NoRow
  ELSE [found |-> TRUE, isActive |-> code_is_active[c],
        usageCount |-> d.usage_count[c], usageLimit |-> usage_limit[c],
        validFrom |-> valid_from[c], expiresAt |-> expires_at[c],
        allowedUserIds |-> allowed_user_ids[c]]

\* isVoucherCodeValid(voucher, userId) with now = new Date()
isVoucherCodeValid(voucher, userId, now) ==
  IF ~voucher.isActive THEN FALSE
  ELSE IF voucher.usageCount >= voucher.usageLimit THEN FALSE
  ELSE IF voucher.validFrom # NoDate /\ voucher.validFrom > now THEN FALSE
  ELSE IF voucher.expiresAt # NoDate /\ voucher.expiresAt < now THEN FALSE
  ELSE IF voucher.allowedUserIds # {} /\ userId \notin voucher.allowedUserIds
  THEN FALSE
  ELSE TRUE

\* ------------------------------------------------------ CircuitBreaker
FailureThreshold == 5
SuccessThreshold == 2
ResetTimeout == 30000            \* ms

\* a breaker that lets a call through only after nextAttempt has passed
executeLate(b, now) ==
  IF b.state = "OPEN"
  THEN IF now <= b.nextAttempt
       THEN [rejected |-> TRUE, breaker |-> b]
       ELSE [rejected |-> FALSE, breaker |-> [b EXCEPT !.state = "HALF_OPEN"]]
  ELSE [rejected |-> FALSE, breaker |-> b]

\* execute, before the wrapped action is invoked: an open breaker rejects
\* the call until nextAttempt, then becomes HALF_OPEN
execute(b, now) ==
  IF b.state = "OPEN"
  THEN IF now < b.nextAttempt
       THEN [rejected |-> TRUE, breaker |-> b]
       ELSE [rejected |-> FALSE, breaker |-> [b EXCEPT !.state = "HALF_OPEN"]]
  ELSE [rejected |-> FALSE, breaker |-> b]

\* a breaker that does not count the successes of its probes
onSuccessForgets(b) == [b EXCEPT !.failureCount = 0]

\* a breaker that closes one success after the threshold
onSuccessLate(b) ==
  IF b.state = "HALF_OPEN"
  THEN IF b.successCount + 1 > SuccessThreshold
       THEN [b EXCEPT !.state = "CLOSED", !.failureCount = 0,
                      !.successCount = 0]
       ELSE [b EXCEPT !.failureCount = 0, !.successCount = @ + 1]
  ELSE [b EXCEPT !.failureCount = 0]

\* onSuccess: failureCount = 0; in HALF_OPEN successCount++ and, at the
\* threshold, CLOSED with successCount = 0
onSuccess(b) ==
  IF b.state = "HALF_OPEN"
  THEN IF b.successCount + 1 >= SuccessThreshold
       THEN [b EXCEPT !.state = "CLOSED", !.failureCount = 0,
                      !.successCount = 0]
       ELSE [b EXCEPT !.failureCount = 0, !.successCount = @ + 1]
  ELSE [b EXCEPT !.failureCount = 0]

\* a breaker that opens one failure after the threshold
onFailureLate(b, now) ==
  IF b.failureCount + 1 > FailureThreshold
  THEN [b EXCEPT !.failureCount = @ + 1, !.state = "OPEN",
                 !.nextAttempt = now + ResetTimeout]
  ELSE [b EXCEPT !.failureCount = @ + 1]

\* onFailure at Date.now() = now
onFailure(b, now) ==
  IF b.failureCount + 1 >= FailureThreshold
  THEN [b EXCEPT !.failureCount = @ + 1, !.state = "OPEN",
                 !.nextAttempt = now + ResetTimeout]
  ELSE [b EXCEPT !.failureCount = @ + 1]

\* ------------------------------------------------- RateLimitService
\* what a command finds under the key at time t: an expired key is gone
Live(zs, exp, t) == IF t >= exp THEN {} ELSE zs

zremrangebyscore(zs, lo, hi) ==
  {e \in zs : ~(lo <= e.score /\ e.score <= hi)}

zcard(zs) == Cardinality(zs)

\* ZADD key score member: a member already present only gets the new score
zadd(zs, score, member) ==
  {e \in zs : e.member # member} \cup {[member |-> member, score |-> score]}

\* checkRateLimit(userId, maxRequests, windowSeconds) with now = Date.now():
\* the pipeline (zremrangebyscore, zcard, zadd(now, now.toString()), expire)
\* and, for a denied call, zrange(key, 0, 0, WITHSCORES)
checkRateLimit(zs, now, maxRequests, windowSeconds) ==
  LET windowStart == now - windowSeconds * 1000
      kept == zremrangebyscore(zs, 0, windowStart)
      requestCount == zcard(kept)
      after == zadd(kept, now, ToString(now))
      oldestRequest == Min({e.score : e \in after})
  IN  IF requestCount >= maxRequests
      THEN [zset |-> after, allowed |-> FALSE, remainingRequests |-> 0,
            resetTime |-> oldestRequest + windowSeconds * 1000]
      ELSE [zset |-> after, allowed |-> TRUE,
            remainingRequests |-> maxRequests - requestCount - 1,
            resetTime |-> now + windowSeconds * 1000]

\* ------------------------------------------------------------------ Init
IdleReq == [pc |-> "idle", userId |-> "u1", voucherCode |-> "cA",
            idempotencyKey |-> 1, snap |-> 0, response |-> NoResult,
            error |-> "none", reason |-> "none"]
NoJob == [state |-> "none", userId |-> "u1", voucherCode |-> "cA",
          attemptsMade |-> 0, pc |-> "none", snap |-> 0,
          returnvalue |-> NoResult, failedReason |-> "none"]
IdleRefund == [pc |-> "idle", claimId |-> 1, outcome |-> "none"]

IdleCall == [pc |-> "idle", now |-> 0]
IdleExec == [pc |-> "idle", result |-> "none"]
NoVoucher == [found |-> TRUE, isActive |-> TRUE, usageCount |-> 0,
              usageLimit |-> 1, validFrom |-> NoDate, expiresAt |-> NoDate,
              allowedUserIds |-> {}]
NoProbe == [voucher |-> NoVoucher, userId |-> "u1", now |-> StartTime,
            out |-> "none"]
IdleHttp == [pc |-> "idle", remaining |-> 0]
\* rate_limit:ip:{addr} does not exist and no checkIPRateLimit call is running
NoIpKey == [count |-> 0, ttl |-> NoDate, epoch |-> 0,
            calls |-> [c \in Calls |-> [pc |-> "idle", count |-> 0, epoch |-> 0]],
            log |-> <<>>]

\* the store, the cache and the queue after start-up, the code rows seeded
\* with a usage_count from seeds
StoreInit(seeds) ==
  /\ \E n \in seeds :
       /\ db = [vouchers_claimed |-> [u \in Users |-> 0],
                usage_count |-> [c \in Codes |-> n],
                is_used |-> [c \in Codes |-> FALSE],
                used_by |-> [c \in Codes |-> "none"],
                voucher_claims |-> <<>>,
                voucher_audit_log |-> <<>>]
       /\ usage0 = [c \in Codes |-> n]
  /\ userLock = [u \in Users |-> Free]
  /\ codeLock = [c \in Codes |-> Free]
  /\ claimLock = [i \in ClaimIds |-> Free]
  /\ countCache = [u \in Users |-> NoCount]
  /\ resultCache = [k \in Keys |-> NoResult]
  /\ jobs = [k \in Keys |-> NoJob]
  /\ req = [r \in Reqs |-> IdleReq]
  /\ issued = 0
  /\ ref = [f \in Refunds |-> IdleRefund]
  /\ breaker = [state |-> "CLOSED", failureCount |-> 0, successCount |-> 0,
                nextAttempt |-> StartTime]

\* no limiter key exists, no call is in progress
LimiterInit ==
  /\ clock = StartTime
  /\ zset = {}
  /\ zexpire = 0
  /\ calls = [c \in Calls |-> IdleCall]
  /\ rlLog = <<>>
  /\ http = IdleHttp
  /\ responses = <<>>
  /\ ip = NoIpKey
  /\ exec = [e \in Execs |-> IdleExec]

Init == StoreInit(SeedUsage) /\ LimiterInit /\ probe = NoProbe

\* the limiter is exercised with the store left as seeded
InitRL == StoreInit({0}) /\ LimiterInit /\ probe = NoProbe


\* the number of operations in progress: the store's pool and the worker's
\* concurrency setting bound it
Running ==
  Cardinality({r \in Reqs : req[r].pc \notin {"idle", "done"}})
  + Cardinality({k \in Keys : jobs[k].state = "active"})
  + Cardinality({f \in Refunds : ref[f].pc \notin {"idle", "done"}})

\* ------------------------------------------- VoucherService.claimVoucher
ReqOwner(r) == <<"req", r>>

Fail(r, code, why) ==
  [req EXCEPT ![r].pc = "done", ![r].error = code, ![r].reason = why]

\* a cache in which no stored claim result is ever found
getClaimResultMiss(rc, k) == NoResult

\* CacheService.getClaimResult: the value stored under claim:result:{key},
\* parsed; NoResult when the key is absent
getClaimResult(rc, k) == rc[k]

\* claimVoucher is called: idempotency lookup, then, with the verdict allowed
\* of the limiter checks, the soft pre-check on the cached count
ClaimCall(r, u, c, k, allowed) ==
  /\ req[r].pc \in {"idle", "done"}
  /\ issued < MaxOps
  /\ Running < MaxInFlight
  /\ issued' = issued + 1
  /\ LET q == [IdleReq EXCEPT !.userId = u, !.voucherCode = c,
                            !.idempotencyKey = k]
         cachedCount == countCache[u]
         existingResult == getClaimResult(resultCache, k)
     IN  req' = [req EXCEPT ![r] =
           IF existingResult # NoResult
           THEN [q EXCEPT !.pc = "done", !.response = existingResult,
                          !.reason = "cached"]
           ELSE IF ~allowed
           THEN [q EXCEPT !.pc = "done", !.error = "RATE_LIMIT_EXCEEDED",
                          !.reason = "limiter"]
           ELSE IF cachedCount # NoCount /\ ~user_is_active[u]
           THEN [q EXCEPT !.pc = "done", !.error = "INTERNAL",
                          !.reason = "user-not-found"]
           ELSE IF cachedCount # NoCount /\ cachedCount >= voucher_limit[u]
           THEN [q EXCEPT !.pc = "done", !.error = "LIMIT_EXCEEDED",
                          !.reason = "precheck"]
           ELSE [q EXCEPT !.pc = "validate"]]
  /\ UNCHANGED <<usage0, exec, probe>>
  /\ UNCHANGED <<db, userLock, codeLock, claimLock, countCache, resultCache,
                 jobs, ref, breaker>>

\* claimVoucher is called with the verdict of the two limiter checks
\* (per-user window and per-IP counter) as an input; the calls in progress
\* occupy the lowest slots
ClaimStart(r, u, c, k) ==
  /\ r > 1 => req[r - 1].pc \notin {"idle", "done"}
  /\ \E allowed \in BOOLEAN :
        (getClaimResult(resultCache, k) # NoResult => allowed)
        /\ ClaimCall(r, u, c, k, allowed)
  /\ UNCHANGED limiterVars

\* an addClaimJob that adds nothing to the queue
addClaimJobDropped(js, k, u, c) == js

\* QueueService.addClaimJob: jobId = idempotencyKey; an existing id is kept
addClaimJob(js, k, u, c) ==
  IF js[k].state = "none"
  THEN [js EXCEPT ![k] = [NoJob EXCEPT !.state = "waiting", !.userId = u,
                                        !.voucherCode = c]]
  ELSE js

\* format check, lookup and eligibility of the code, then the branch:
\* premium users enter the breaker and the transaction, others are enqueued
ValidateAndBranch(r) ==
  /\ req[r].pc = "validate"
  /\ LET u == req[r].userId
         c == req[r].voucherCode
         k == req[r].idempotencyKey
     IN  IF ~isValidVoucherCodeFormat(code_text[c])
         THEN /\ req' = Fail(r, "INVALID_VOUCHER", "format")
              /\ UNCHANGED <<jobs, breaker>>
         ELSE IF ~getVoucherCode(db, c).found
         THEN /\ req' = Fail(r, "INVALID_VOUCHER", "not-found")
              /\ UNCHANGED <<jobs, breaker>>
         ELSE IF ~isVoucherCodeValid(getVoucherCode(db, c), u, clock)
         THEN /\ req' = Fail(r, "INVALID_VOUCHER", "not-valid")
              /\ UNCHANGED <<jobs, breaker>>
         ELSE IF ~user_is_active[u]
         THEN /\ req' = Fail(r, "INTERNAL", "user-not-found")
              /\ UNCHANGED <<jobs, breaker>>
         ELSE IF is_premium[u]
         THEN /\ UNCHANGED jobs
              /\ IF breaker.state = "OPEN"
                 THEN \E elapsed \in BOOLEAN :  \* Date.now() >= nextAttempt
                        IF elapsed
                        THEN /\ breaker' = [breaker EXCEPT !.state = "HALF_OPEN"]
                             /\ req' = [req EXCEPT ![r].pc = "tx_user"]
                        ELSE /\ breaker' = breaker
                             /\ req' = Fail(r, "INTERNAL", "breaker-open")
                 ELSE /\ breaker' = breaker
                      /\ req' = [req EXCEPT ![r].pc = "tx_user"]
         ELSE /\ jobs' = addClaimJob(jobs, k, u, c)
              /\ req' = [req EXCEPT ![r].pc = "done",
                           ![r].response = [status |-> "pending",
                                            vouchersRemaining |-> 0,
                                            requestId |-> k],
                           ![r].reason = "queued"]
              /\ UNCHANGED breaker
  /\ UNCHANGED <<usage0, limiterVars, exec, probe>>
  /\ UNCHANGED <<issued, db, userLock, codeLock, claimLock, countCache, resultCache,
                 ref>>

\* ------------------------------- VoucherService.processClaimImmediate
\* BEGIN; SELECT ... FROM users WHERE id = u AND is_active FOR UPDATE; limit
PremiumLockUser(r) ==
  /\ req[r].pc = "tx_user"
  /\ LET u == req[r].userId
     IN  /\ userLock[u] = Free
         /\ IF ~user_is_active[u]
            THEN /\ req' = Fail(r, "INTERNAL", "user-not-found")
                 /\ breaker' = onFailure(breaker, clock)
                 /\ UNCHANGED userLock
            ELSE IF db.vouchers_claimed[u] >= voucher_limit[u]
            THEN /\ req' = Fail(r, "LIMIT_EXCEEDED", "tx-limit")
                 /\ breaker' = onFailure(breaker, clock)
                 /\ UNCHANGED userLock
            ELSE /\ req' = [req EXCEPT ![r].pc = "tx_code",
                                       ![r].snap = db.vouchers_claimed[u]]
                 /\ userLock' = [userLock EXCEPT ![u] = ReqOwner(r)]
                 /\ UNCHANGED breaker
  /\ UNCHANGED <<usage0, limiterVars, exec, probe>>
  /\ UNCHANGED <<issued, db, codeLock, claimLock, countCache, resultCache, jobs, ref>>

\* the guard of processClaimImmediate on the locked code row and on the
\* user's earlier claims of the code: "ok" or the rejection's reason
PremiumGuard(d, u, c) ==
  IF ~code_is_active[c] THEN "inactive"
  ELSE IF expires_at[c] # NoDate /\ expires_at[c] < clock THEN "expired"
  ELSE IF d.usage_count[c] >= usage_limit[c] THEN "usage-limit"
  ELSE IF ExistingClaim(d, u, c) THEN "already-claimed"
  ELSE "ok"

\* SELECT ... FROM voucher_codes WHERE code = c FOR UPDATE; validation;
\* already-claimed check; UPDATE users; UPDATE voucher_codes; INSERT claim;
\* then, still inside the transaction callback, invalidateUserCache(u) and
\* setUserVoucherCount(u, claimed + 1)
PremiumLockCode(r) ==
  /\ req[r].pc = "tx_code"
  /\ LET u == req[r].userId
         c == req[r].voucherCode
         k == req[r].idempotencyKey
         g == PremiumGuard(db, u, c)
     IN  /\ codeLock[c] = Free
         /\ IF g # "ok"
            THEN /\ req' = Fail(r, "INVALID_VOUCHER", g)
                 /\ breaker' = onFailure(breaker, clock)
                 /\ userLock' = [userLock EXCEPT ![u] = Free]
                 /\ UNCHANGED <<codeLock, countCache>>
            ELSE IF ~PremiumWrites(db, u, c, k).ok
            THEN /\ req' = Fail(r, "INTERNAL", "check_violation")
                 /\ breaker' = onFailure(breaker, clock)
                 /\ userLock' = [userLock EXCEPT ![u] = Free]
                 /\ UNCHANGED <<codeLock, countCache>>
            ELSE /\ req' = [req EXCEPT ![r].pc = "tx_commit"]
                 /\ codeLock' = [codeLock EXCEPT ![c] = ReqOwner(r)]
                 /\ countCache' = [countCache EXCEPT ![u] = req[r].snap + 1]
                 /\ UNCHANGED <<breaker, userLock>>
  /\ UNCHANGED <<usage0, limiterVars, exec, probe>>
  /\ UNCHANGED <<issued, db, claimLock, resultCache, jobs, ref>>

\* COMMIT, release of the row locks, breaker.onSuccess
PremiumCommit(r) ==
  /\ req[r].pc = "tx_commit"
  /\ LET u == req[r].userId
         c == req[r].voucherCode
         k == req[r].idempotencyKey
     IN  /\ db' = PremiumWrites(db, u, c, k).db
         /\ userLock' = [userLock EXCEPT ![u] = Free]
         /\ codeLock' = [codeLock EXCEPT ![c] = Free]
         /\ req' = [req EXCEPT ![r].pc = "cache_result",
               ![r].response = [status |-> "success",
                  vouchersRemaining |-> voucher_limit[u] - (req[r].snap + 1)]]
  /\ breaker' = onSuccess(breaker)
  /\ UNCHANGED <<usage0, limiterVars, exec, probe>>
  /\ UNCHANGED <<issued, claimLock, countCache, resultCache, jobs, ref>>

\* cacheService.cacheClaimResult(idempotencyKey, result); return result
PremiumCacheResult(r) ==
  /\ req[r].pc = "cache_result"
  /\ resultCache' = [resultCache EXCEPT ![req[r].idempotencyKey] =
                        req[r].response]
  /\ req' = [req EXCEPT ![r].pc = "done", ![r].reason = "claimed"]
  /\ UNCHANGED <<usage0, limiterVars, exec, probe>>
  /\ UNCHANGED <<issued, db, userLock, codeLock, claimLock, countCache, jobs, ref,
                 breaker>>


\* ------------------------------------------- VoucherWorker.processJob
JobOwner(k) == <<"job", k>>

\* a queue that gives a failed attempt another try whatever their number
JobThrowAgain(js, k, why) ==
  [js EXCEPT ![k].state = "waiting", ![k].pc = "none", ![k].failedReason = why]

\* processJob throws: the job is retried while attempts remain, else failed
\* (a job waiting out its backoff delay counts as waiting)
JobThrow(js, k, why) ==
  [js EXCEPT ![k].state = IF js[k].attemptsMade < JobAttempts
                          THEN "waiting" ELSE "failed",
             ![k].pc = "none", ![k].failedReason = why]

\* a worker takes a waiting job (one more attempt): BEGIN; SELECT ... FROM
\* users ... FOR UPDATE; limit check (the worker returns a limit_reached
\* result, it does not throw)
JobLockUser(k) ==
  /\ jobs[k].state = "waiting"
  /\ Running < MaxInFlight
  /\ LET u == jobs[k].userId
         js == [jobs EXCEPT ![k].state = "active",
                            ![k].attemptsMade = @ + 1]
     IN  /\ userLock[u] = Free
         /\ IF ~user_is_active[u]
            THEN /\ jobs' = JobThrow(js, k, "user-not-found")
                 /\ UNCHANGED userLock
            ELSE IF db.vouchers_claimed[u] >= voucher_limit[u]
            THEN /\ jobs' = [js EXCEPT ![k].pc = "cache_result",
                               ![k].returnvalue = [status |-> "limit_reached",
                                                   vouchersRemaining |-> 0]]
                 /\ UNCHANGED userLock
            ELSE /\ jobs' = [js EXCEPT ![k].pc = "tx_code",
                                         ![k].snap = db.vouchers_claimed[u]]
                 /\ userLock' = [userLock EXCEPT ![u] = JobOwner(k)]
  /\ UNCHANGED <<usage0, limiterVars, exec, probe>>
  /\ UNCHANGED <<issued, db, codeLock, claimLock, countCache, resultCache, req, ref,
                 breaker>>

\* the guard of processJob on the locked code row
WorkerGuard(d, u, c) ==
  IF ~code_is_active[c]
       \/ (expires_at[c] # NoDate /\ expires_at[c] < clock)
       \/ d.usage_count[c] >= usage_limit[c]
  THEN "not-valid"
  ELSE "ok"

\* SELECT ... FROM voucher_codes ... FOR UPDATE; validation; UPDATE users;
\* UPDATE voucher_codes; INSERT claim; then, still inside the transaction
\* callback, invalidateUserCache(u) and setUserVoucherCount(u, claimed + 1)
JobLockCode(k) ==
  /\ jobs[k].state = "active" /\ jobs[k].pc = "tx_code"
  /\ LET u == jobs[k].userId
         c == jobs[k].voucherCode
         g == WorkerGuard(db, u, c)
     IN  /\ codeLock[c] = Free
         /\ IF g # "ok"
            THEN /\ jobs' = JobThrow(jobs, k, g)
                 /\ userLock' = [userLock EXCEPT ![u] = Free]
                 /\ UNCHANGED <<codeLock, countCache>>
            ELSE IF ~WorkerWrites(db, u, c, k).ok
            THEN /\ jobs' = JobThrow(jobs, k, "check_violation")
                 /\ userLock' = [userLock EXCEPT ![u] = Free]
                 /\ UNCHANGED <<codeLock, countCache>>
            ELSE /\ jobs' = [jobs EXCEPT ![k].pc = "tx_commit"]
                 /\ codeLock' = [codeLock EXCEPT ![c] = JobOwner(k)]
                 /\ countCache' = [countCache EXCEPT ![u] = jobs[k].snap + 1]
                 /\ UNCHANGED userLock
  /\ UNCHANGED <<usage0, limiterVars, exec, probe>>
  /\ UNCHANGED <<issued, db, claimLock, resultCache, req, ref, breaker>>

\* COMMIT and release of the row locks
JobCommit(k) ==
  /\ jobs[k].state = "active" /\ jobs[k].pc = "tx_commit"
  /\ LET u == jobs[k].userId
         c == jobs[k].voucherCode
     IN  /\ db' = WorkerWrites(db, u, c, k).db
         /\ userLock' = [userLock EXCEPT ![u] = Free]
         /\ codeLock' = [codeLock EXCEPT ![c] = Free]
         /\ jobs' = [jobs EXCEPT ![k].pc = "cache_result",
               ![k].returnvalue = [status |-> "success",
                  vouchersRemaining |-> voucher_limit[u] - (jobs[k].snap + 1)]]
  /\ UNCHANGED <<usage0, limiterVars, exec, probe>>
  /\ UNCHANGED <<issued, claimLock, countCache, resultCache, req, ref, breaker>>

\* cacheClaimResult(idempotencyKey, result); the job completes
JobCacheResult(k) ==
  /\ jobs[k].state = "active" /\ jobs[k].pc = "cache_result"
  /\ resultCache' = [resultCache EXCEPT ![k] = jobs[k].returnvalue]
  /\ jobs' = [jobs EXCEPT ![k].state = "completed", ![k].pc = "none"]
  /\ UNCHANGED <<usage0, limiterVars, exec, probe>>
  /\ UNCHANGED <<issued, db, userLock, codeLock, claimLock, countCache, req, ref,
                 breaker>>

\* --------------------------------------- VoucherService.refundVoucher
RefundOwner(f) == <<"refund", f>>

\* a guard that does not look at the claim's status
RefundGuardNoStatus(d, id) ==
  IF id > Len(d.voucher_claims) THEN "not-found" ELSE "ok"

\* the guard of refundVoucher on the locked claim row
RefundGuard(d, id) ==
  IF id > Len(d.voucher_claims) THEN "not-found"
  ELSE IF d.voucher_claims[id].status = "refunded" THEN "already-refunded"
  ELSE "ok"

\* a refund that updates the voucher_codes row before the users row
RefundOrderCodeFirst == <<"upd_code", "upd_user">>

\* the order of refundVoucher's row updates after the claim row is locked:
\* UPDATE users, then UPDATE voucher_codes
RefundOrder == <<"upd_user", "upd_code">>

\* the statement that follows the update at pc
RefundAfter(pc) == IF pc = RefundOrder[1] THEN RefundOrder[2] ELSE "commit"

\* refundVoucher(id) is called: BEGIN; SELECT ... FROM voucher_claims
\* WHERE id = $1 FOR UPDATE (waits while another transaction holds the row)
RefundLockClaim(f, id) ==
  /\ ref[f].pc \in {"idle", "done"}
  /\ f > 1 => ref[f - 1].pc \notin {"idle", "done"}
  /\ id <= Len(db.voucher_claims) + 1
  /\ issued < MaxOps
  /\ Running < MaxInFlight
  /\ issued' = issued + 1
  /\ LET g == RefundGuard(db, id)
     IN  /\ claimLock[id] = Free
         /\ IF g # "ok"
            THEN /\ ref' = [ref EXCEPT ![f] = [pc |-> "done", claimId |-> id,
                                               outcome |-> g]]
                 /\ UNCHANGED claimLock
            ELSE /\ ref' = [ref EXCEPT ![f] = [pc |-> RefundOrder[1], claimId |-> id,
                                               outcome |-> "none"]]
                 /\ claimLock' = [claimLock EXCEPT ![id] = RefundOwner(f)]
  /\ UNCHANGED <<usage0, limiterVars, exec, probe>>
  /\ UNCHANGED <<db, userLock, codeLock, countCache, resultCache, jobs, req,
                 breaker>>

\* UPDATE voucher_claims SET status = 'refunded' ...; UPDATE users SET
\* vouchers_claimed = GREATEST(0, vouchers_claimed - 1) (takes the row lock)
RefundUpdateUser(f) ==
  /\ ref[f].pc = "upd_user"
  /\ LET u == db.voucher_claims[ref[f].claimId].user_id
     IN  /\ userLock[u] = Free
         /\ userLock' = [userLock EXCEPT ![u] = RefundOwner(f)]
  /\ ref' = [ref EXCEPT ![f].pc = RefundAfter("upd_user")]
  /\ UNCHANGED <<usage0, limiterVars, exec, probe>>
  /\ UNCHANGED <<issued, db, codeLock, claimLock, countCache, resultCache, jobs, req,
                 breaker>>

\* UPDATE voucher_codes SET usage_count = GREATEST(0, usage_count - 1),
\* is_used = FALSE (takes the row lock); INSERT the REFUND audit row;
\* cacheService.invalidateUserCache(owner)
RefundUpdateCode(f) ==
  /\ ref[f].pc = "upd_code"
  /\ LET claim == db.voucher_claims[ref[f].claimId]
     IN  /\ codeLock[claim.voucher_code] = Free
         /\ codeLock' = [codeLock EXCEPT ![claim.voucher_code] = RefundOwner(f)]
         /\ countCache' = [countCache EXCEPT ![claim.user_id] = NoCount]
  /\ ref' = [ref EXCEPT ![f].pc = RefundAfter("upd_code")]
  /\ UNCHANGED <<usage0, limiterVars, exec, probe>>
  /\ UNCHANGED <<issued, db, userLock, claimLock, resultCache, jobs, req, breaker>>

ReleaseAll(locks, owner) ==
  [x \in DOMAIN locks |-> IF locks[x] = owner THEN Free ELSE locks[x]]

\* COMMIT: the four writes become visible together
RefundCommit(f) ==
  /\ ref[f].pc = "commit"
  /\ db' = RefundWrites(db, ref[f].claimId)
  /\ userLock' = ReleaseAll(userLock, RefundOwner(f))
  /\ codeLock' = ReleaseAll(codeLock, RefundOwner(f))
  /\ claimLock' = ReleaseAll(claimLock, RefundOwner(f))
  /\ ref' = [ref EXCEPT ![f].pc = "done", ![f].outcome = "ok"]
  /\ UNCHANGED <<usage0, limiterVars, exec, probe>>
  /\ UNCHANGED <<issued, countCache, resultCache, jobs, req, breaker>>

\* a statement of the refund transaction fails (store error, timeout):
\* Database.transaction issues ROLLBACK and rethrows
RefundAbort(f) ==
  /\ ref[f].pc \in {"upd_user", "upd_code", "commit"}
  /\ userLock' = ReleaseAll(userLock, RefundOwner(f))
  /\ codeLock' = ReleaseAll(codeLock, RefundOwner(f))
  /\ claimLock' = ReleaseAll(claimLock, RefundOwner(f))
  /\ ref' = [ref EXCEPT ![f].pc = "done", ![f].outcome = "store-error"]
  /\ UNCHANGED <<usage0, limiterVars, exec, probe>>
  /\ UNCHANGED <<issued, db, countCache, resultCache, jobs, req, breaker>>

\* ------------------------------------------------------- CacheService
\* warmCache: the committed vouchers_claimed is written to user:{id}:vouchers
WarmCache(u) ==
  /\ countCache[u] # db.vouchers_claimed[u]
  /\ issued < MaxOps
  /\ issued' = issued + 1
  /\ countCache' = [countCache EXCEPT ![u] = db.vouchers_claimed[u]]
  /\ UNCHANGED <<usage0, limiterVars, exec, probe>>
  /\ UNCHANGED <<db, userLock, codeLock, claimLock, resultCache, jobs, req,
                 ref, breaker>>

\* the TTL of user:{id}:vouchers (300 s) runs out
ExpireCount(u) ==
  /\ countCache[u] # NoCount
  /\ issued < MaxOps
  /\ issued' = issued + 1
  /\ countCache' = [countCache EXCEPT ![u] = NoCount]
  /\ UNCHANGED <<usage0, limiterVars, exec, probe>>
  /\ UNCHANGED <<db, userLock, codeLock, claimLock, resultCache, jobs, req,
                 ref, breaker>>

\* the TTL of claim:result:{key} (3600 s) runs out
ExpireResult(k) ==
  /\ resultCache[k] # NoResult
  /\ issued < MaxOps
  /\ issued' = issued + 1
  /\ resultCache' = [resultCache EXCEPT ![k] = NoResult]
  /\ UNCHANGED <<usage0, limiterVars, exec, probe>>
  /\ UNCHANGED <<db, userLock, codeLock, claimLock, countCache, jobs, req,
                 ref, breaker>>

\* ------------------------------------------------------------------ Spec
Next ==
  \/ \E r \in Reqs, u \in SomeUsers, c \in SomeCodes, k \in SomeKeys :
        ClaimStart(r, u, c, k)
  \/ \E r \in Reqs : ValidateAndBranch(r)
  \/ \E r \in Reqs : PremiumLockUser(r)
  \/ \E r \in Reqs : PremiumLockCode(r)
  \/ \E r \in Reqs : PremiumCommit(r)
  \/ \E r \in Reqs : PremiumCacheResult(r)
  \/ \E k \in Keys : JobLockUser(k)
  \/ \E k \in Keys : JobLockCode(k)
  \/ \E k \in Keys : JobCommit(k)
  \/ \E k \in Keys : JobCacheResult(k)
  \/ \E f \in Refunds, id \in ClaimIds : RefundLockClaim(f, id)
  \/ \E f \in Refunds : RefundUpdateUser(f)
  \/ \E f \in Refunds : RefundUpdateCode(f)
  \/ \E f \in Refunds : RefundCommit(f)
  \/ \E f \in Refunds : RefundAbort(f)
  \/ \E u \in SomeUsers : WarmCache(u)
  \/ \E u \in SomeUsers : ExpireCount(u)
  \/ \E k \in Keys : ExpireResult(k)

Spec == Init /\ [][Next]_vars

\* ------------------------------------------------------------ properties
SuccessRows(d, u, c) ==
  {i \in 1..Len(d.voucher_claims) :
     /\ d.voucher_claims[i].user_id = u
     /\ d.voucher_claims[i].voucher_code = c
     /\ d.voucher_claims[i].status = "success"}

RefundAudit(d, id) ==
  {j \in 1..Len(d.voucher_audit_log) :
     /\ d.voucher_audit_log[j].action = "REFUND"
     /\ d.voucher_audit_log[j].claim_id = id}

\* the claims whose status a step turns from success into refunded
Flipped ==
  {id \in 1..Len(db.voucher_claims) :
     /\ db.voucher_claims[id].status = "success"
     /\ db'.voucher_claims[id].status = "refunded"}

\* C1: in every committed state every user has
\* 0 <= vouchers_claimed <= voucher_limit, whatever the cached count
\* user:{id}:vouchers held when the pre-check read it
C1_ClaimedWithinLimit ==
  \A u \in Users :
     /\ db.vouchers_claimed[u] >= 0
     /\ db.vouchers_claimed[u] <= voucher_limit[u]

\* a claim that the pre-check let through is rejected inside the
\* transaction because the user is at the limit
C1_RejectedAtLimit ==
  \E r \in Reqs :
     /\ req[r].reason = "tx-limit"
     /\ db.vouchers_claimed[req[r].userId] = voucher_limit[req[r].userId]

\* C2: in every committed state every code has
\* 0 <= usage_count <= usage_limit
C2_UsageWithinLimit ==
  \A c \in Codes :
     /\ db.usage_count[c] >= 0
     /\ db.usage_count[c] <= usage_limit[c]

\* a claim transaction was rolled back by the CHECK on usage_count
C2_RolledBackByCheck ==
  \/ \E r \in Reqs : req[r].reason = "check_violation"
  \/ \E k \in Keys : jobs[k].failedReason = "check_violation"

\* C3: in every committed state each (user, code) pair has at most one
\* voucher_claims row with status = success, on the premium path and on
\* the worker path
C3_OneSuccessPerUserAndCode ==
  \A u \in Users, c \in Codes : Cardinality(SuccessRows(db, u, c)) <= 1

\* C4: requests that share a request id (same user, same code) have the
\* effect of at most one claim: at most one claim row with that request_id
\* is ever committed
C4_OneClaimPerRequestId ==
  \A i, j \in 1..Len(db.voucher_claims) :
     (/\ i < j
      /\ db.voucher_claims[i].request_id = db.voucher_claims[j].request_id
      /\ db.voucher_claims[i].user_id = db.voucher_claims[j].user_id
      /\ db.voucher_claims[i].voucher_code = db.voucher_claims[j].voucher_code)
     => FALSE

\* C5: a committed successful claim adds exactly 1 to the user's
\* vouchers_claimed, exactly 1 to the code's usage_count and exactly one
\* voucher_claims row with status = success, the trigger's writes included
C5_ClaimAddsOne ==
  [][Len(db'.voucher_claims) > Len(db.voucher_claims) =>
       LET row == db'.voucher_claims[Len(db'.voucher_claims)]
       IN  /\ Len(db'.voucher_claims) = Len(db.voucher_claims) + 1
           /\ row.status = "success"
           /\ db'.vouchers_claimed[row.user_id]
                = db.vouchers_claimed[row.user_id] + 1
           /\ db'.usage_count[row.voucher_code]
                = db.usage_count[row.voucher_code] + 1]_vars

\* C6: a refund is atomic: the step that turns a claim into refunded sets
\* refunded_at, makes the owner's vouchers_claimed max(0, claimed - 1) and
\* the code's usage_count max(0, usage_count - 1) with is_used false, and
\* appends exactly one REFUND audit row; a refund that fails changes nothing
C6_RefundAtomic ==
  [][/\ \A id \in Flipped :
          LET claim == db.voucher_claims[id]
          IN  /\ db'.voucher_claims[id].refunded_at
              /\ db'.vouchers_claimed[claim.user_id]
                   = Max(0, db.vouchers_claimed[claim.user_id] - 1)
              /\ db'.usage_count[claim.voucher_code]
                   = Max(0, db.usage_count[claim.voucher_code] - 1)
              /\ ~db'.is_used[claim.voucher_code]
              /\ db'.voucher_audit_log
                   = Append(db.voucher_audit_log,
                            [action |-> "REFUND", user_id |-> claim.user_id,
                             voucher_code |-> claim.voucher_code,
                             claim_id |-> id])
     /\ \A f \in Refunds :
          (/\ ref[f].pc \in {"upd_user", "upd_code", "commit"}
           /\ ref'[f].pc = "done"
           /\ ref'[f].outcome # "ok") => db' = db]_vars

\* a refund has committed: the claim is refunded and carries refunded_at
C6_RefundCommitted ==
  \E f \in Refunds :
     /\ ref[f].outcome = "ok"
     /\ db.voucher_claims[ref[f].claimId].status = "refunded"
     /\ db.voucher_claims[ref[f].claimId].refunded_at
     /\ Cardinality(RefundAudit(db, ref[f].claimId)) = 1

\* C7: a claim is refunded at most once: a refund of a missing or already
\* refunded claim fails and leaves the store unchanged, a REFUND audit row
\* is only ever written for a claim that was success and had none, and the
\* counters only go down in a step that refunds exactly one claim
C7_RefundAtMostOnce ==
  [][/\ \A f \in Refunds :
          (/\ ref'[f] # ref[f]
           /\ ref'[f].outcome \in {"not-found", "already-refunded"})
          => db' = db
     /\ \A id \in ClaimIds :
          RefundAudit(db', id) # RefundAudit(db, id) =>
             /\ id \in Flipped
             /\ RefundAudit(db, id) = {}
             /\ Cardinality(RefundAudit(db', id)) = 1
     /\ ((\E u \in Users : db'.vouchers_claimed[u] < db.vouchers_claimed[u])
         \/ (\E c \in Codes : db'.usage_count[c] < db.usage_count[c]))
        => Cardinality(Flipped) = 1]_vars

\* a refund of an already refunded claim has failed
C7_SecondRefundFailed ==
  \E f \in Refunds :
     /\ ref[f].outcome = "already-refunded"
     /\ db.voucher_claims[ref[f].claimId].status = "refunded"
     /\ Cardinality(RefundAudit(db, ref[f].claimId)) = 1

\* C8: claim then refund is a round trip: once every claim made has been
\* refunded, each user's vouchers_claimed and each code's usage_count are
\* what they were before the claims
C8_ClaimRefundRoundTrip ==
  (/\ Len(db.voucher_claims) >= 1
   /\ \A i \in 1..Len(db.voucher_claims) :
         db.voucher_claims[i].status = "refunded")
  => /\ \A u \in Users : db.vouchers_claimed[u] = 0
     /\ \A c \in Codes : db.usage_count[c] = usage0[c]

\* ------------------------------- the sliding-window limiter on its own
\* time passes
RLTick(t) ==
  /\ t > clock
  /\ clock' = t
  /\ UNCHANGED <<zset, zexpire, calls, rlLog, http, responses, ip>>
  /\ UNCHANGED <<storeVars, exec, probe>>

\* checkRateLimit is entered: const now = Date.now()
RLCall(c) ==
  /\ calls[c].pc = "idle"
  /\ c > 1 => calls[c - 1].pc # "idle"
  /\ Len(rlLog) + Cardinality({x \in Calls : calls[x].pc # "idle"}) < MaxAttempts
  /\ calls' = [calls EXCEPT ![c] = [pc |-> "pipeline", now |-> clock]]
  /\ UNCHANGED <<clock, zset, zexpire, rlLog, http, responses, ip>>
  /\ UNCHANGED <<storeVars, exec, probe>>

\* the key-value store executes the call's pipeline; the call returns
RLPipeline(c) ==
  /\ calls[c].pc = "pipeline"
  /\ LET res == checkRateLimit(Live(zset, zexpire, clock), calls[c].now,
                               RLMax, RLWindow)
     IN  /\ zset' = res.zset
         /\ rlLog' = Append(rlLog, [now |-> calls[c].now,
                                    allowed |-> res.allowed])
  /\ zexpire' = clock + RLWindow * 1000
  /\ calls' = [calls EXCEPT ![c] = IdleCall]
  /\ UNCHANGED <<clock, http, responses, ip>>
  /\ UNCHANGED <<storeVars, exec, probe>>

NextRL ==
  \/ \E t \in Instants : RLTick(t)
  \/ \E c \in Calls : RLCall(c)
  \/ \E c \in Calls : RLPipeline(c)

SpecRL == InitRL /\ [][NextRL]_vars

\* C9: no window of RLWindow seconds holds more than RLMax admitted calls of
\* the user, the calls stamped with the same millisecond included
C9_AtMostMaxPerWindow ==
  \A i \in 1..Len(rlLog) :
     rlLog[i].allowed =>
        Cardinality({j \in 1..Len(rlLog) :
                       /\ rlLog[j].allowed
                       /\ rlLog[j].now >= rlLog[i].now
                       /\ rlLog[j].now < rlLog[i].now + RLWindow * 1000})
          <= RLMax

\* ------------------------------------------ POST /api/vouchers/claim
\* a POST of the user arrives and rateLimitMiddleware(10, 60) runs: a denied
\* request is answered 429 with Retry-After, an admitted one goes on to the
\* route handler
HttpMiddleware(g) ==
  /\ http.pc = "idle"
  /\ Len(responses) < NumPosts
  /\ clock' = clock + g
  /\ LET now == clock + g
         res == checkRateLimit(Live(zset, zexpire, now), now,
                               MiddlewareMax, MiddlewareWindow)
     IN  /\ zset' = res.zset
         /\ zexpire' = now + MiddlewareWindow * 1000
         /\ IF ~res.allowed
            THEN /\ responses' = Append(responses,
                      [status |-> 429, stage |-> "middleware",
                       retryAfter |-> Ceil(res.resetTime - now, 1000),
                       remaining |-> res.remainingRequests])
                 /\ http' = IdleHttp
            ELSE /\ responses' = responses
                 /\ http' = [pc |-> "service",
                             remaining |-> res.remainingRequests]
  /\ UNCHANGED <<calls, rlLog, ip>>
  /\ UNCHANGED <<storeVars, exec, probe>>

\* the route handler calls claimVoucher with a fresh idempotency key: its
\* own checkRateLimit(userId, 10, 60); RateLimitExceeded is answered 429 by
\* errorHandler, an admitted claim gets its domain outcome (written 200)
HttpClaim(g) ==
  /\ http.pc = "service"
  /\ clock' = clock + g
  /\ LET now == clock + g
         res == checkRateLimit(Live(zset, zexpire, now), now,
                               ServiceMax, ServiceWindow)
     IN  /\ zset' = res.zset
         /\ zexpire' = now + ServiceWindow * 1000
         /\ responses' = Append(responses,
              [status |-> IF res.allowed THEN 200 ELSE 429,
               stage |-> IF res.allowed THEN "claim" ELSE "service",
               retryAfter |-> NoHeader,
               remaining |-> http.remaining])
  /\ http' = IdleHttp
  /\ UNCHANGED <<calls, rlLog, ip>>
  /\ UNCHANGED <<storeVars, exec, probe>>

NextHTTP ==
  \/ \E g \in PostGaps : HttpMiddleware(g)
  \/ \E g \in CallGaps : HttpClaim(g)

SpecHTTP == InitRL /\ [][NextHTTP]_vars


\* C10: of 11 POSTs sent within 10 s from an empty window, the first 10 pass
\* the limiter and the 11th is answered 429 with Retry-After > 0 and
\* X-RateLimit-Remaining 0
C10_TenAdmittedEleventhRejected ==
  \A i \in 1..Len(responses) :
     /\ i <= 10 => responses[i].status # 429
     /\ i = 11 => /\ responses[i].status = 429
                  /\ responses[i].retryAfter > 0
                  /\ responses[i].remaining = 0

\* the reasons for which a call ends without being stopped by the user's
\* limit: a cached result, a limiter rejection, a code that is malformed or
\* not eligible, a missing user, an open breaker, a committed claim
NotAboutLimit == {"cached", "limiter", "format", "not-found", "not-valid",
                  "user-not-found",
                  "breaker-open", "inactive", "expired", "usage-limit",
                  "already-claimed", "check_violation", "claimed"}

\* C11: a claim request of a user whose committed vouchers_claimed equals
\* voucher_limit ends with LIMIT_EXCEEDED, leaves users, voucher_codes and
\* voucher_claims as they were and appends exactly one audit row with action
\* LIMIT_REACHED, for premium and other users, with or without a cached count
C11_LimitRejectionAudited ==
  [][\A r \in Reqs :
       (/\ req'[r] # req[r]
        /\ req'[r].pc = "done"
        /\ db.vouchers_claimed[req'[r].userId] = voucher_limit[req'[r].userId]
        /\ req'[r].reason \notin NotAboutLimit)
       => /\ req'[r].error = "LIMIT_EXCEEDED"
          /\ db'.vouchers_claimed = db.vouchers_claimed
          /\ db'.usage_count = db.usage_count
          /\ db'.voucher_claims = db.voucher_claims
          /\ Len(db'.voucher_audit_log) = Len(db.voucher_audit_log) + 1
          /\ db'.voucher_audit_log[Len(db'.voucher_audit_log)].action
               = "LIMIT_REACHED"]_vars

\* ------------------------------------------ a burst of parallel claims
\* every client call of the burst is made while the calls before it are
\* still running, each with an idempotency key of its own
BurstStart(r, u, c) ==
  /\ req[r].pc = "idle"
  /\ ClaimStart(r, u, c, r)

NextBurst ==
  \/ \E r \in Reqs, u \in BurstUsers, c \in Codes : BurstStart(r, u, c)
  \/ \E r \in Reqs : ValidateAndBranch(r)
  \/ \E r \in Reqs : PremiumLockUser(r)
  \/ \E r \in Reqs : PremiumLockCode(r)
  \/ \E r \in Reqs : PremiumCommit(r)
  \/ \E r \in Reqs : PremiumCacheResult(r)
  \/ \E k \in Keys : JobLockUser(k)
  \/ \E k \in Keys : JobLockCode(k)
  \/ \E k \in Keys : JobCommit(k)
  \/ \E k \in Keys : JobCacheResult(k)

SpecBurst == InitRL /\ [][NextBurst]_vars

\* every call of the burst has returned and every job has run to its end
BurstSettled ==
  /\ \A r \in Reqs : req[r].pc = "done"
  /\ \A k \in Keys : jobs[k].state \in {"none", "completed", "failed"}

\* the calls of the burst whose claim succeeded: answered success, or
\* answered pending and carried out by the worker
Succeeded ==
  {r \in Reqs :
     \/ req[r].response.status = "success"
     \/ /\ req[r].response.status = "pending"
        /\ resultCache[req[r].idempotencyKey].status = "success"}

\* C12: N parallel claims of one user with vouchers_claimed 0 and
\* voucher_limit L < N, with N distinct request ids and N distinct eligible
\* codes, all admitted by the limiter: exactly L succeed, the other N - L
\* receive LIMIT_EXCEEDED and the user ends with vouchers_claimed = L
C12_ExactlyLimitSucceed ==
  \A u \in Users :
     (/\ BurstSettled
      /\ voucher_limit[u] < Cardinality(Reqs)
      /\ \A r \in Reqs : /\ req[r].userId = u
                         /\ req[r].reason # "limiter"
                         /\ usage_limit[req[r].voucherCode] > 1
      /\ \A r1, r2 \in Reqs :
            r1 # r2 => req[r1].voucherCode # req[r2].voucherCode)
     => /\ Cardinality(Succeeded) = voucher_limit[u]
        /\ Cardinality({r \in Reqs : req[r].error = "LIMIT_EXCEEDED"})
             = Cardinality(Reqs) - voucher_limit[u]
        /\ db.vouchers_claimed[u] = voucher_limit[u]

\* the calls of the burst that claim code c
ClaimsOf(c) == {r \in Reqs : req[r].pc # "idle" /\ req[r].voucherCode = c}

\* C13: two users claim at the same time the same eligible code with
\* usage_limit 1 and usage_count 0: exactly one claim commits, the other is
\* rejected with INVALID_VOUCHER and the code ends with usage_count = 1
C13_ExactlyOneWinsLastUse ==
  \A c \in Codes :
     (/\ BurstSettled
      /\ usage_limit[c] = 1
      /\ usage0[c] = 0
      /\ Cardinality(ClaimsOf(c)) = 2
      /\ \A r \in ClaimsOf(c) : req[r].reason # "limiter"
      /\ \A r1, r2 \in ClaimsOf(c) : r1 # r2 => req[r1].userId # req[r2].userId)
     => /\ Cardinality(Succeeded \cap ClaimsOf(c)) = 1
        /\ Cardinality(SuccessRows(db, "u1", c) \cup SuccessRows(db, "u3", c)) = 1
        /\ db.usage_count[c] = 1

\* ------------------------------------- claimVoucher with its limiter call
\* claimVoucher is called g ms after the last call: the idempotency lookup
\* and, when nothing is stored under the key, checkRateLimit(userId, 10, 60)
\* on the user's window (the per-IP counter stays below its maximum)
RetryClaim(r, u, c, k, g) ==
  /\ req[r].pc = "idle"
  /\ r > 1 => req[r - 1].pc # "idle"
  /\ clock' = clock + g
  /\ LET now == clock + g
         res == checkRateLimit(Live(zset, zexpire, now), now,
                               ServiceMax, ServiceWindow)
     IN  IF getClaimResult(resultCache, k) # NoResult
         THEN /\ ClaimCall(r, u, c, k, TRUE)
              /\ UNCHANGED <<zset, zexpire, rlLog>>
         ELSE /\ ClaimCall(r, u, c, k, res.allowed)
              /\ zset' = res.zset
              /\ zexpire' = now + ServiceWindow * 1000
              /\ rlLog' = Append(rlLog, [now |-> now, allowed |-> res.allowed])
  /\ UNCHANGED <<calls, http, responses, ip>>

NextRetry ==
  \/ \E r \in Reqs, u \in SomeUsers, c \in SomeCodes, k \in SomeKeys,
        g \in CallGaps : RetryClaim(r, u, c, k, g)
  \/ \E r \in Reqs : ValidateAndBranch(r)
  \/ \E r \in Reqs : PremiumLockUser(r)
  \/ \E r \in Reqs : PremiumLockCode(r)
  \/ \E r \in Reqs : PremiumCommit(r)
  \/ \E r \in Reqs : PremiumCacheResult(r)
  \/ \E k \in Keys : JobLockUser(k)
  \/ \E k \in Keys : JobLockCode(k)
  \/ \E k \in Keys : JobCommit(k)
  \/ \E k \in Keys : JobCacheResult(k)
  \/ \E k \in SomeKeys : ExpireResult(k)

SpecRetry == InitRL /\ [][NextRetry]_vars

\* C14: while a result is stored under claim:result:{key}, a claimVoucher
\* call with that key returns exactly the stored result and does nothing
\* else: the limiter's window, the store, its locks, the caches and the
\* queue are as before; a retry of a successful premium claim therefore
\* leaves vouchers_claimed and the claim rows as they were
C14_CachedResultReturnedAlone ==
  [][\A r \in Reqs :
       (/\ req[r].pc = "idle"
        /\ req'[r].pc # "idle"
        /\ resultCache[req'[r].idempotencyKey] # NoResult)
       => /\ req'[r].pc = "done"
          /\ req'[r].error = "none"
          /\ req'[r].response = resultCache[req'[r].idempotencyKey]
          /\ <<zset, zexpire, rlLog>>' = <<zset, zexpire, rlLog>>
          /\ <<db, userLock, codeLock, claimLock>>'
               = <<db, userLock, codeLock, claimLock>>
          /\ <<countCache, resultCache, jobs, breaker>>'
               = <<countCache, resultCache, jobs, breaker>>]_vars

\* a premium claim succeeded and its retry with the same key got the stored
\* success result, with one claim row and one limiter entry in all
C14_RetryGotStoredSuccess ==
  \E r1, r2 \in Reqs :
     /\ req[r1].reason = "claimed"
     /\ req[r2].reason = "cached"
     /\ req[r2].idempotencyKey = req[r1].idempotencyKey
     /\ req[r2].response = req[r1].response
     /\ req[r2].response.status = "success"
     /\ db.vouchers_claimed[req[r1].userId] = 1
     /\ Len(db.voucher_claims) = 1
     /\ Len(rlLog) = 1

\* ------------------------------------------- the queue and its retention
\* the users whose claims are enqueued
QueueUsers == {u \in SomeUsers : ~is_premium[u]}

\* removeOnComplete / removeOnFail: a finished job leaves the queue once the
\* queue holds more finished jobs than it keeps or the job's age runs out
RemoveFinished(k) ==
  /\ jobs[k].state \in {"completed", "failed"}
  /\ jobs' = [jobs EXCEPT ![k] = NoJob]
  /\ UNCHANGED <<usage0, limiterVars, exec, probe>>
  /\ UNCHANGED <<issued, db, userLock, codeLock, claimLock, countCache,
                 resultCache, req, ref, breaker>>

NextQueue ==
  \/ \E r \in Reqs, u \in QueueUsers, c \in SomeCodes, k \in SomeKeys :
        ClaimStart(r, u, c, k)
  \/ \E r \in Reqs : ValidateAndBranch(r)
  \/ \E k \in Keys : JobLockUser(k)
  \/ \E k \in Keys : JobLockCode(k)
  \/ \E k \in Keys : JobCommit(k)
  \/ \E k \in Keys : JobCacheResult(k)
  \/ \E k \in SomeKeys : ExpireResult(k)
  \/ \E k \in Keys : RemoveFinished(k)

SpecQueue == InitRL /\ [][NextQueue]_vars

\* the claim rows committed on behalf of idempotency key k
RowsOf(d, k) ==
  {i \in 1..Len(d.voucher_claims) : d.voucher_claims[i].request_id = k}

\* C15: enqueueing is deduplicated by idempotency key: an addClaimJob call
\* for an id that has a job leaves the queue as it is and the caller is
\* answered pending without an error, and the claim transaction is carried
\* out for an id by at most one job, so at most one claim row is committed
\* for it, however many addClaimJob calls are made with the id
C15_EnqueueDeduplicated ==
  [][/\ \A r \in Reqs :
          (req[r].pc = "validate" /\ req'[r].reason = "queued")
          => /\ req'[r].error = "none"
             /\ req'[r].response.status = "pending"
             /\ jobs[req[r].idempotencyKey].state # "none" => jobs' = jobs
             /\ jobs'[req[r].idempotencyKey].state # "none"
     /\ \A k \in Keys : Cardinality(RowsOf(db', k)) <= 1]_vars

\* ---------------------------------------- the circuit breaker on its own
\* time passes
CBTick(t) ==
  /\ t > clock
  /\ clock' = t
  /\ UNCHANGED <<zset, zexpire, calls, rlLog, http, responses, ip, exec, probe>>
  /\ UNCHANGED storeVars

\* execute(fn) is called: rejected by an open breaker, else fn is invoked
CBExecute(e) ==
  /\ exec[e].pc = "idle"
  /\ issued < MaxExecutes
  /\ issued' = issued + 1
  /\ LET g == execute(breaker, clock)
     IN  /\ breaker' = g.breaker
         /\ exec' = [exec EXCEPT ![e] =
                       IF g.rejected
                       THEN [pc |-> "idle", result |-> "rejected"]
                       ELSE [pc |-> "running", result |-> "none"]]
  /\ UNCHANGED <<db, userLock, codeLock, claimLock, countCache, resultCache,
                 jobs, req, ref, usage0>>
  /\ UNCHANGED <<limiterVars, probe>>

\* fn resolves before the timeout: onSuccess
CBSucceed(e) ==
  /\ exec[e].pc = "running"
  /\ breaker' = onSuccess(breaker)
  /\ exec' = [exec EXCEPT ![e] = [pc |-> "idle", result |-> "ok"]]
  /\ UNCHANGED <<db, userLock, codeLock, claimLock, countCache, resultCache,
                 jobs, req, issued, ref, usage0>>
  /\ UNCHANGED <<limiterVars, probe>>

\* fn rejects, or the timeout wins the race: onFailure
CBFail(e) ==
  /\ exec[e].pc = "running"
  /\ breaker' = onFailure(breaker, clock)
  /\ exec' = [exec EXCEPT ![e] = [pc |-> "idle", result |-> "error"]]
  /\ UNCHANGED <<db, userLock, codeLock, claimLock, countCache, resultCache,
                 jobs, req, issued, ref, usage0>>
  /\ UNCHANGED <<limiterVars, probe>>

NextCB ==
  \/ \E t \in BreakerInstants : CBTick(t)
  \/ \E e \in Execs : CBExecute(e)
  \/ \E e \in Execs : CBSucceed(e)
  \/ \E e \in Execs : CBFail(e)

SpecCB == InitRL /\ [][NextCB]_vars

\* the step ends a call of the wrapped action with the given result
Returned(e, result) ==
  /\ exec[e].pc = "running"
  /\ exec'[e].pc = "idle"
  /\ exec'[e].result = result

\* C16: while the breaker is CLOSED a successful call sets failureCount to
\* 0 and changes nothing else, a failed call adds 1 to failureCount, and the
\* breaker becomes OPEN with nextAttempt = now + resetTimeout exactly when
\* failureCount reaches failureThreshold; below it the breaker stays CLOSED
C16_ClosedCountsFailures ==
  [][\A e \in Execs :
       breaker.state = "CLOSED" =>
         /\ Returned(e, "ok") =>
              breaker' = [breaker EXCEPT !.failureCount = 0]
         /\ Returned(e, "error") =>
              /\ breaker'.failureCount = breaker.failureCount + 1
              /\ breaker'.successCount = breaker.successCount
              /\ IF breaker.failureCount + 1 = FailureThreshold
                 THEN /\ breaker'.state = "OPEN"
                      /\ breaker'.nextAttempt = clock + ResetTimeout
                 ELSE /\ breaker.failureCount + 1 < FailureThreshold
                      /\ breaker'.state = "CLOSED"
                      /\ breaker'.nextAttempt = breaker.nextAttempt]_vars

\* the fifth failure in a row has just opened the closed breaker
C16_OpenedAtThreshold ==
  /\ breaker.state = "OPEN"
  /\ breaker.failureCount = FailureThreshold
  /\ breaker.successCount = 0
  /\ breaker.nextAttempt = clock + ResetTimeout
  /\ \E e \in Execs : exec[e].result = "error"

\* C17: an execute call that finds the breaker OPEN before nextAttempt is
\* rejected, no wrapped action is started and state, failureCount,
\* successCount and nextAttempt are as before; an execute call that finds
\* it OPEN at or after nextAttempt makes it HALF_OPEN and starts the action
C17_OpenRejectsUntilNextAttempt ==
  [][(issued' = issued + 1 /\ breaker.state = "OPEN") =>
       IF clock < breaker.nextAttempt
       THEN /\ breaker' = breaker
            /\ \A e \in Execs : exec'[e].pc = exec[e].pc
            /\ \E e \in Execs : /\ exec[e].pc = "idle"
                                /\ exec'[e].result = "rejected"
       ELSE /\ breaker' = [breaker EXCEPT !.state = "HALF_OPEN"]
            /\ \E e \in Execs : /\ exec[e].pc = "idle"
                                /\ exec'[e].pc = "running"]_vars

\* a call was rejected by the open breaker and, at nextAttempt, another
\* call made the breaker HALF_OPEN and is running
C17_RejectedThenHalfOpen ==
  /\ breaker.state = "HALF_OPEN"
  /\ clock = breaker.nextAttempt
  /\ \E e1, e2 \in Execs : /\ exec[e1].result = "rejected"
                           /\ exec[e2].pc = "running"

\* C18: while the breaker is HALF_OPEN a successful call adds 1 to
\* successCount and the breaker becomes CLOSED with both counters 0 exactly
\* when successCount reaches successThreshold; every failed call, also one
\* after an earlier success in HALF_OPEN, makes the breaker OPEN with
\* nextAttempt = now + resetTimeout
C18_HalfOpenProbes ==
  [][\A e \in Execs :
       breaker.state = "HALF_OPEN" =>
         /\ Returned(e, "ok") =>
              IF breaker.successCount + 1 >= SuccessThreshold
              THEN /\ breaker'.state = "CLOSED"
                   /\ breaker'.failureCount = 0
                   /\ breaker'.successCount = 0
              ELSE /\ breaker'.state = "HALF_OPEN"
                   /\ breaker'.successCount = breaker.successCount + 1
         /\ Returned(e, "error") =>
              /\ breaker'.state = "OPEN"
              /\ breaker'.nextAttempt = clock + ResetTimeout]_vars

\* ------------------------------------- the eligibility check on its own
\* the instants a code's validity period is given in, around the instant
\* of the check
ProbeDates == {NoDate, StartTime - 1, StartTime, StartTime + 1}

\* the code rows the schema admits: usage_count <= usage_limit and
\* valid_from < expires_at when there is an expiry
ProbeVouchers ==
  {v \in [found : {TRUE}, isActive : BOOLEAN, usageCount : {0, 1, 2},
          usageLimit : {1, 2}, validFrom : ProbeDates, expiresAt : ProbeDates,
          allowedUserIds : {{}, {"u1"}, {"u2"}}] :
     /\ v.usageCount <= v.usageLimit
     /\ (v.expiresAt # NoDate /\ v.validFrom # NoDate)
           => v.validFrom < v.expiresAt}

InitElig ==
  /\ StoreInit({0})
  /\ LimiterInit
  /\ \E v \in ProbeVouchers, u \in SomeUsers :
        probe = [voucher |-> v, userId |-> u, now |-> StartTime,
                 out |-> "none"]

\* claimVoucher's eligibility step on a code row that was found: a code
\* that is not valid for the user is answered INVALID_VOUCHER
EligCheck ==
  /\ probe.out = "none"
  /\ probe' = [probe EXCEPT !.out =
                 IF ~isVoucherCodeValid(probe.voucher, probe.userId, probe.now)
                 THEN "INVALID_VOUCHER" ELSE "eligible"]
  /\ UNCHANGED <<storeVars, limiterVars, exec>>

NextElig == EligCheck

SpecElig == InitElig /\ [][NextElig]_vars

\* C19: the eligibility check at time t accepts a code for a user iff the
\* code is active, usage_count < usage_limit, valid_from is absent or <= t,
\* expires_at is absent or t < expires_at, and allowed_users is empty or
\* holds the user; a code that fails it is answered INVALID_VOUCHER and
\* nothing is changed
C19_EligibleIffAllHold ==
  LET v == probe.voucher
      t == probe.now
  IN  probe.out # "none" =>
        /\ (probe.out = "eligible") <=>
             (/\ v.isActive
              /\ v.usageCount < v.usageLimit
              /\ (v.validFrom = NoDate \/ v.validFrom <= t)
              /\ (v.expiresAt = NoDate \/ t < v.expiresAt)
              /\ (v.allowedUserIds = {} \/ probe.userId \in v.allowedUserIds))
        /\ probe.out # "eligible" => probe.out = "INVALID_VOUCHER"
        /\ Len(db.voucher_claims) = 0 /\ \A k \in Keys : jobs[k] = NoJob

\* the reasons for which claimVoucher rejects a call before the branch
EarlyRejections == {"limiter", "precheck", "format", "not-found", "not-valid"}

\* the format rule, on the spelling of a code
WellFormed(text) ==
  /\ Len(text) \in CodeMinLen..CodeMaxLen
  /\ {text[i] : i \in 1..Len(text)} \subseteq CodeChars

\* C20: a call rejected before the premium/queue branch, by the limiter
\* checks, the soft limit pre-check, the format check or the lookup and
\* eligibility check, leaves users, voucher_codes, voucher_claims, the row
\* locks and the queue as they were; a code that is not well formed is
\* rejected with INVALID_VOUCHER by the format check, before the lookup
C20_EarlyRejectionChangesNothing ==
  [][\A r \in Reqs :
       /\ (/\ req'[r] # req[r]
           /\ req'[r].pc = "done"
           /\ req'[r].reason \in EarlyRejections)
          => /\ req'[r].error \in {"RATE_LIMIT_EXCEEDED", "LIMIT_EXCEEDED",
                                   "INVALID_VOUCHER"}
             /\ db' = db
             /\ jobs' = jobs
             /\ <<userLock, codeLock, claimLock>>'
                  = <<userLock, codeLock, claimLock>>
       /\ (/\ req[r].pc = "validate"
           /\ req'[r] # req[r]
           /\ ~WellFormed(code_text[req[r].voucherCode]))
          => /\ req'[r].pc = "done"
             /\ req'[r].error = "INVALID_VOUCHER"
             /\ req'[r].reason = "format"]_vars

\* a malformed code was rejected by the format check after another call's
\* claim had been committed
C20_MalformedRejected ==
  \E r \in Reqs :
     /\ req[r].reason = "format"
     /\ req[r].error = "INVALID_VOUCHER"
     /\ req[r].voucherCode = "cBad"
     /\ Len(db.voucher_claims) = 1

\* ------------------------------------------------ transactions and locks
\* the transactions of the store, named by the owner they lock rows as
TxIds ==
  {ReqOwner(r) : r \in Reqs} \cup {JobOwner(k) : k \in Keys}
    \cup {RefundOwner(f) : f \in Refunds}

\* t has issued BEGIN and neither COMMIT nor ROLLBACK
InTx(t) ==
  IF t[1] = "req" THEN req[t[2]].pc \in {"tx_user", "tx_code", "tx_commit"}
  ELSE IF t[1] = "job"
  THEN jobs[t[2]].state = "active" /\ jobs[t[2]].pc \in {"tx_code", "tx_commit"}
  ELSE IF t[1] = "refund" THEN ref[t[2]].pc \in {"upd_user", "upd_code", "commit"}
  ELSE FALSE

\* the holder of the row lock t's next statement asks for (Free: the row is
\* unlocked, or the next statement takes no lock)
NeededLock(t) ==
  IF t[1] = "req"
  THEN IF req[t[2]].pc = "tx_user" THEN userLock[req[t[2]].userId]
       ELSE IF req[t[2]].pc = "tx_code" THEN codeLock[req[t[2]].voucherCode]
       ELSE Free
  ELSE IF t[1] = "job"
  THEN IF jobs[t[2]].pc = "tx_code" THEN codeLock[jobs[t[2]].voucherCode]
       ELSE Free
  ELSE IF ref[t[2]].pc = "upd_user"
       THEN userLock[db.voucher_claims[ref[t[2]].claimId].user_id]
       ELSE IF ref[t[2]].pc = "upd_code"
       THEN codeLock[db.voucher_claims[ref[t[2]].claimId].voucher_code]
       ELSE Free

\* following the lock waits from t for at most n steps reaches a running
\* transaction that waits for nothing
RECURSIVE CanProceed(_, _)
CanProceed(t, n) ==
  /\ InTx(t)
  /\ \/ NeededLock(t) = Free
     \/ n > 0 /\ CanProceed(NeededLock(t), n - 1)

\* the statements of running transactions (no new call, no store error)
TxStep ==
  \/ \E r \in Reqs : PremiumLockUser(r)
  \/ \E r \in Reqs : PremiumLockCode(r)
  \/ \E r \in Reqs : PremiumCommit(r)
  \/ \E k \in Keys : JobLockCode(k)
  \/ \E k \in Keys : JobCommit(k)
  \/ \E f \in Refunds : RefundUpdateUser(f)
  \/ \E f \in Refunds : RefundUpdateCode(f)
  \/ \E f \in Refunds : RefundCommit(f)

NextTx ==
  \/ \E r \in Reqs, u \in SomeUsers, c \in SomeCodes : BurstStart(r, u, c)
  \/ \E r \in Reqs : ValidateAndBranch(r)
  \/ \E r \in Reqs : PremiumCacheResult(r)
  \/ \E k \in Keys : JobLockUser(k)
  \/ \E k \in Keys : JobCacheResult(k)
  \/ \E f \in Refunds, id \in ClaimIds : RefundLockClaim(f, id)
  \/ \E f \in Refunds : RefundAbort(f)
  \/ TxStep

\* the store and the event loop run every statement that can run
SpecTx == InitRL /\ [][NextTx]_vars /\ WF_vars(TxStep)

\* C21: claim transactions (premium and worker) and refund transactions
\* never deadlock: a transaction holding a voucher_code row lock holds a
\* users row lock already, every chain of lock waits ends at a running
\* transaction that waits for nothing, and every started transaction
\* eventually commits or rolls back.
C21_NoDeadlock ==
  /\ [](\A t \in TxIds :
          /\ (\E c \in Codes : codeLock[c] = t) => \E u \in Users : userLock[u] = t
          /\ InTx(t) => CanProceed(t, Cardinality(TxIds)))
  /\ (\E t \in TxIds : InTx(t)) ~> (\A t \in TxIds : ~InTx(t))

\* C21 witness: a claim transaction and a refund transaction run together
\* and one of them waits for a row lock the other holds
C21_WaitsOnOther ==
  \E t \in TxIds : /\ InTx(t) /\ NeededLock(t) # Free /\ InTx(NeededLock(t))
                   /\ "refund" \in {t[1], NeededLock(t)[1]}

\* ------------------------------------------------ job attempts (C22)
\* the rejections of a claim that come from the store's rows, as processJob
\* reports them
DomainReasons == {"not-valid", "not-found", "limit_reached"}

\* C22: a job whose claim is rejected for a domain reason (limit reached,
\* code unknown, inactive, expired or exhausted) ran its transaction once
\* and is in state failed; no job completes with a rejection as its result.
C22_DomainRejectionFailsOnce ==
  \A k \in Keys :
    /\ jobs[k].failedReason \in DomainReasons
         => jobs[k].state = "failed" /\ jobs[k].attemptsMade = 1
    /\ (jobs[k].returnvalue # NoResult /\ jobs[k].state \in {"completed", "failed"})
         => IF jobs[k].returnvalue.status \in DomainReasons
            THEN jobs[k].state = "failed" /\ jobs[k].attemptsMade = 1
            ELSE jobs[k].state = "completed"

\* C22: a job rejected because its code ran out is run a second time
C22_RejectedJobRetried ==
  \E k \in Keys : /\ jobs[k].failedReason = "not-valid"
                  /\ jobs[k].attemptsMade > 1

\* ------------------------------------------ repeated execution (C23)
\* the claim transaction of request r / of job k ends in this step
ReqTxEnds(r) ==
  /\ req[r].pc \in {"tx_user", "tx_code", "tx_commit"}
  /\ req'[r].pc \notin {"tx_user", "tx_code", "tx_commit"}

JobTxEnds(k) ==
  /\ jobs[k].state = "active" /\ jobs[k].pc \in {"tx_code", "tx_commit"}
  /\ jobs'[k].pc \notin {"tx_code", "tx_commit"}

\* C23: a claim transaction that is executed for a request id whose claim
\* is already committed is rejected with INVALID_VOUCHER (already claimed)
\* and leaves users.vouchers_claimed, usage_count and voucher_claims as
\* they are, so no second success row is inserted for the id.
C23_RepeatRejected ==
  [][/\ \A r \in Reqs :
          (ReqTxEnds(r) /\ RowsOf(db, req[r].idempotencyKey) # {})
          => /\ req'[r].error = "INVALID_VOUCHER"
             /\ req'[r].reason = "already-claimed"
             /\ db' = db
     /\ \A k \in Keys :
          (JobTxEnds(k) /\ RowsOf(db, k) # {})
          => /\ jobs'[k].state # "active"
             /\ db' = db]_vars

\* C23: two success rows carry the same request id
C23_SecondRowForId ==
  \E k \in Keys :
     Cardinality({i \in RowsOf(db, k) :
                     db.voucher_claims[i].status = "success"}) > 1

\* ------------------------------------------ claim status moves (C24)
\* CREATE TYPE voucher_status AS ENUM (...)
voucher_status == {"pending", "success", "failed", "refunded"}

\* a voucher_claims row of user u2 and code cA as the schema admits it:
\* any status, refunded_at set exactly for refunded
StoredClaim(st, k) ==
  [user_id |-> "u2", voucher_code |-> "cA", status |-> st,
   request_id |-> k, refunded_at |-> (st = "refunded")]

\* the store holds a success claim of u2 and one more claim of any status;
\* the counters count the success rows
InitRefund ==
  /\ \E st \in voucher_status :
       LET n == IF st = "success" THEN 2 ELSE 1
       IN  /\ db = [vouchers_claimed |-> [u \in Users |-> IF u = "u2" THEN n ELSE 0],
                    usage_count |-> [c \in Codes |-> IF c = "cA" THEN n ELSE 0],
                    is_used |-> [c \in Codes |-> FALSE],
                    used_by |-> [c \in Codes |-> "none"],
                    voucher_claims |-> <<StoredClaim("success", 1),
                                         StoredClaim(st, 2)>>,
                    voucher_audit_log |-> <<>>]
           /\ usage0 = [c \in Codes |-> 0]
  /\ userLock = [u \in Users |-> Free]
  /\ codeLock = [c \in Codes |-> Free]
  /\ claimLock = [i \in ClaimIds |-> Free]
  /\ countCache = [u \in Users |-> NoCount]
  /\ resultCache = [k \in Keys |-> NoResult]
  /\ jobs = [k \in Keys |-> NoJob]
  /\ req = [r \in Reqs |-> IdleReq]
  /\ issued = 0
  /\ ref = [f \in Refunds |-> IdleRefund]
  /\ breaker = [state |-> "CLOSED", failureCount |-> 0, successCount |-> 0,
                nextAttempt |-> StartTime]
  /\ LimiterInit
  /\ probe = NoProbe

NextRefund ==
  \/ \E f \in Refunds, id \in ClaimIds : RefundLockClaim(f, id)
  \/ \E f \in Refunds : RefundUpdateUser(f)
  \/ \E f \in Refunds : RefundUpdateCode(f)
  \/ \E f \in Refunds : RefundCommit(f)
  \/ \E f \in Refunds : RefundAbort(f)

SpecRefund == InitRefund /\ [][NextRefund]_vars

InWindow(zs, now, windowSeconds) ==
  {e \in zs : e.score > now - windowSeconds * 1000}

\* C25: with n the number of unexpired window entries read before the
\* call's own entry is added, checkRateLimit returns allowed = (n < max),
\* for an allowed call remainingRequests = max - n - 1 >= 0, and for an
\* allowed call as for a denied one resetTime = (score of the oldest entry
\* in the window) + window * 1000.
C25_ResultOfCheckRateLimit ==
  [][\A c \in Calls :
       (calls[c].pc = "pipeline" /\ calls'[c].pc = "idle") =>
          LET now == calls[c].now
              live == Live(zset, zexpire, clock)
              n == Cardinality(InWindow(live, now, RLWindow))
              res == checkRateLimit(live, now, RLMax, RLWindow)
              oldest == Min({e.score : e \in InWindow(zset', now, RLWindow)})
          IN  /\ res.allowed = (n < RLMax)
              /\ res.allowed => /\ res.remainingRequests = RLMax - n - 1
                                /\ res.remainingRequests >= 0
              /\ res.resetTime = oldest + RLWindow * 1000]_vars

\* C25: an allowed call was made while an earlier entry was still inside
\* the window
C25_AllowedWithOlderEntry ==
  /\ Len(rlLog) >= 2
  /\ rlLog[Len(rlLog)].allowed
  /\ \E e \in zset : /\ e.score < rlLog[Len(rlLog)].now
                     /\ e.score > rlLog[Len(rlLog)].now - RLWindow * 1000

\* ------------------------------------------ checkIPRateLimit (C26)
\* an admission that lets one call more through
ipAdmitsOneMore(count, maxRequests) == ~(count > maxRequests + 1)

\* if (count > maxRequests) return false; return true
ipAdmits(count, maxRequests) == ~(count > maxRequests)

\* the value INCR finds under the key at time t: 0 once the key has expired
IpLiveCount(t) == IF ip.ttl # NoDate /\ t >= ip.ttl THEN 0 ELSE ip.count

\* const count = await client.incr(key): atomic in the key-value store; a
\* key that does not exist is created with value 1 and no expiry
IPIncr(c) ==
  /\ ip.calls[c].pc = "idle"
  /\ c > 1 => ip.calls[c - 1].pc # "idle"
  /\ Len(ip.log) + Cardinality({x \in Calls : ip.calls[x].pc # "idle"})
       < MaxAttempts
  /\ LET n == IpLiveCount(clock) + 1
     IN  ip' = [ip EXCEPT !.count = n,
                          !.ttl = IF n = 1 THEN NoDate ELSE @,
                          !.epoch = IF n = 1 THEN @ + 1 ELSE @,
                          !.calls[c] = [pc |-> "incremented", count |-> n,
                                        epoch |-> IF n = 1 THEN ip.epoch + 1
                                                  ELSE ip.epoch]]
  /\ UNCHANGED <<clock, zset, zexpire, calls, rlLog, http, responses>>
  /\ UNCHANGED <<storeVars, exec, probe>>

\* if (count === 1) await client.expire(key, windowSeconds)
IPExpire(c) ==
  /\ ip.calls[c].pc = "incremented"
  /\ ip.calls[c].count = 1
  /\ ip' = [ip EXCEPT !.ttl = clock + IPWindow * 1000,
                      !.calls[c].pc = "expiry_set"]
  /\ UNCHANGED <<clock, zset, zexpire, calls, rlLog, http, responses>>
  /\ UNCHANGED <<storeVars, exec, probe>>

\* the call returns false when count > maxRequests, true otherwise
IPReturn(c) ==
  /\ \/ ip.calls[c].pc = "expiry_set"
     \/ ip.calls[c].pc = "incremented" /\ ip.calls[c].count # 1
  /\ ip' = [ip EXCEPT !.calls[c] = [pc |-> "idle", count |-> 0, epoch |-> 0],
                      !.log = Append(@, [count |-> ip.calls[c].count,
                                         epoch |-> ip.calls[c].epoch,
                                         allowed |-> ipAdmits(ip.calls[c].count,
                                                              IPMax)])]
  /\ UNCHANGED <<clock, zset, zexpire, calls, rlLog, http, responses>>
  /\ UNCHANGED <<storeVars, exec, probe>>

NextIP ==
  \/ \E t \in Instants : RLTick(t)
  \/ \E c \in Calls : IPIncr(c)
  \/ \E c \in Calls : IPExpire(c)
  \/ \E c \in Calls : IPReturn(c)

SpecIP == InitRL /\ [][NextIP]_vars

\* C26: checkIPRateLimit increments the key, sets the key's expiry to the
\* window exactly when the incremented value is 1, and admits iff the
\* incremented value is at most max; so in one fixed window (one lifetime of
\* the key) at most max calls are admitted under any interleaving of the
\* calls, and after the window has ended the count restarts from 1.
C26_FixedWindowCounter ==
  [][/\ \A c \in Calls :
          /\ (ip.calls[c].pc = "idle" /\ ip'.calls[c].pc # "idle")
             => /\ ip'.calls[c].count = IpLiveCount(clock) + 1
                /\ ip'.count = ip'.calls[c].count
                /\ (ip.ttl # NoDate /\ clock >= ip.ttl)
                      => ip'.calls[c].count = 1
          /\ (ip.calls[c].pc = "incremented" /\ ip'.calls[c].pc # "incremented")
             => /\ (ip'.ttl # ip.ttl) <=> (ip.calls[c].count = 1)
                /\ ip.calls[c].count = 1 => ip'.ttl = clock + IPWindow * 1000
     /\ \A i \in 1..Len(ip'.log) :
          ip'.log[i].allowed <=> (ip'.log[i].count <= IPMax)
     /\ \A e \in 1..ip'.epoch :
          Cardinality({i \in 1..Len(ip'.log) :
                         ip'.log[i].epoch = e /\ ip'.log[i].allowed}) <= IPMax]_vars

\* C26: a call was denied in one window and, the key having expired, a
\* later call counted 1 again and was admitted
C26_RestartAfterWindow ==
  \E i, j \in 1..Len(ip.log) :
     /\ i < j
     /\ ~ip.log[i].allowed /\ ip.log[i].epoch = 1
     /\ ip.log[j].allowed /\ ip.log[j].count = 1 /\ ip.log[j].epoch = 2

\* ------------------------------------------ the branch of claimVoucher (C27)
\* C27: once all checks have passed, claimVoucher of a premium user runs
\* the claim transaction itself, through the circuit breaker, and stores
\* the result under the request id before it returns it; claimVoucher of a
\* non-premium user leaves exactly one job under jobId = request id, returns
\* status pending with that request id and changes nothing in users,
\* voucher_codes and voucher_claims.
C27_BranchAfterChecks ==
  [][\A r \in Reqs :
       LET u == req[r].userId
           c == req[r].voucherCode
           k == req[r].idempotencyKey
       IN  /\ (req[r].pc = "validate" /\ req'[r].pc = "tx_user")
              => is_premium[u] /\ db' = db /\ jobs' = jobs
           /\ (req[r].pc = "validate" /\ req'[r].pc = "done")
              => \/ req'[r].reason \in {"format", "not-found", "not-valid",
                                        "user-not-found"}
                 \/ req'[r].reason = "breaker-open" /\ is_premium[u]
                 \/ req'[r].reason = "queued" /\ ~is_premium[u]
           /\ (req[r].pc = "validate" /\ req'[r].reason = "queued")
              => /\ req'[r].pc = "done" /\ req'[r].error = "none"
                 /\ req'[r].response.status = "pending"
                 /\ req'[r].response.requestId = k
                 /\ jobs'[k].state # "none"
                 /\ \A j \in Keys \ {k} : jobs'[j] = jobs[j]
                 /\ IF jobs[k].state = "none"
                    THEN /\ jobs'[k].state = "waiting"
                         /\ jobs'[k].userId = u /\ jobs'[k].voucherCode = c
                    ELSE jobs'[k] = jobs[k]
                 /\ db' = db
           /\ (req[r].pc = "tx_commit" /\ req'[r].pc # "tx_commit")
              => req'[r].pc = "cache_result" /\ breaker' = onSuccess(breaker)
           /\ (req[r].pc # "done" /\ req'[r].pc = "done"
                 /\ req'[r].reason = "claimed")
              => /\ is_premium[u]
                 /\ req[r].pc = "cache_result"
                 /\ req'[r].response.status = "success"
                 /\ resultCache'[k] = req'[r].response
                 /\ RowsOf(db', k) # {}]_vars

\* C27: a premium call has returned its stored result and a non-premium
\* call has returned pending while its job waits and no row exists for it
C27_BothBranchesReturned ==
  \E r1, r2 \in Reqs :
     /\ req[r1].pc = "done" /\ req[r1].reason = "claimed"
     /\ resultCache[req[r1].idempotencyKey] = req[r1].response
     /\ req[r2].pc = "done" /\ req[r2].reason = "queued"
     /\ jobs[req[r2].idempotencyKey].state = "waiting"
     /\ RowsOf(db, req[r2].idempotencyKey) = {}

\* ------------------------------------------ jobs under fair workers (C28)
\* QueueService.getJobStatus: null when the queue holds no job of that id
getJobStatus(js, k) ==
  IF js[k].state = "none" THEN NoResult
  ELSE [status |-> js[k].state, returnvalue |-> js[k].returnvalue,
        failedReason |-> js[k].failedReason]

\* VoucherService.getClaimStatus: the cached result, else the job status,
\* else not_found
getClaimStatus(rc, js, k) ==
  IF getClaimResult(rc, k) # NoResult THEN getClaimResult(rc, k)
  ELSE IF getJobStatus(js, k) # NoResult THEN getJobStatus(js, k)
  ELSE [status |-> "not_found"]

\* the claim result an answer of getClaimStatus carries
ResultIn(answer) ==
  IF "returnvalue" \in DOMAIN answer THEN answer.returnvalue ELSE answer

JobCodes == {"cA", "cB"}

\* what the event loop, the store and the workers do once a call is made
Progress ==
  \/ \E r \in Reqs : ValidateAndBranch(r)
  \/ \E r \in Reqs : PremiumLockUser(r)
  \/ \E r \in Reqs : PremiumLockCode(r)
  \/ \E r \in Reqs : PremiumCommit(r)
  \/ \E r \in Reqs : PremiumCacheResult(r)
  \/ \E k \in Keys : JobLockUser(k)
  \/ \E k \in Keys : JobLockCode(k)
  \/ \E k \in Keys : JobCommit(k)
  \/ \E k \in Keys : JobCacheResult(k)

NextJobs ==
  \/ \E r \in Reqs, u \in SomeUsers, c \in JobCodes : BurstStart(r, u, c)
  \/ \E k \in SomeKeys : ExpireResult(k)
  \/ \E k \in Keys : RemoveFinished(k)
  \/ Progress

\* workers are scheduled fairly and every statement that can run is run
SpecJobs == InitRL /\ [][NextJobs]_vars /\ WF_vars(Progress)

processClaimImmediate(d, u, c, k) ==
  IF ~user_is_active[u] THEN [accepted |-> FALSE, kind |-> "Error", db |-> d]
  ELSE IF d.vouchers_claimed[u] >= voucher_limit[u]
  THEN [accepted |-> FALSE, kind |-> "VoucherLimitExceeded", db |-> d]
  ELSE IF ~code_exists[c] \/ PremiumGuard(d, u, c) # "ok"
  THEN [accepted |-> FALSE, kind |-> "InvalidVoucherCode", db |-> d]
  ELSE IF ~PremiumWrites(d, u, c, k).ok
  THEN [accepted |-> FALSE, kind |-> "Error", db |-> d]
  ELSE [accepted |-> TRUE, kind |-> "success", db |-> PremiumWrites(d, u, c, k).db]

\* processJob run alone on store d
processJob(d, u, c, k) ==
  IF ~user_is_active[u] THEN [accepted |-> FALSE, kind |-> "Error", db |-> d]
  ELSE IF d.vouchers_claimed[u] >= voucher_limit[u]
  THEN [accepted |-> FALSE, kind |-> "limit_reached", db |-> d]
  ELSE IF ~code_exists[c] \/ WorkerGuard(d, u, c) # "ok"
  THEN [accepted |-> FALSE, kind |-> "Error", db |-> d]
  ELSE IF ~WorkerWrites(d, u, c, k).ok
  THEN [accepted |-> FALSE, kind |-> "Error", db |-> d]
  ELSE [accepted |-> TRUE, kind |-> "success", db |-> WorkerWrites(d, u, c, k).db]

\* C29: the worker's claim transaction and the premium path's claim
\* transaction are the same routine: from the same store state and the
\* same (user, code, request id) both accept or both reject, with the same
\* failure kind, and they leave the same store.
C29_SameRoutine ==
  \A u \in Users, c \in Codes, k \in Keys :
     processJob(db, u, c, k) = processClaimImmediate(db, u, c, k)

\* C29: from one store state the premium routine rejects a claim as
\* already made while the worker's routine accepts it and writes a second
\* success row
C29_WorkerAcceptsPremiumRejects ==
  \E u \in Users, c \in Codes, k \in Keys :
     /\ ExistingClaim(db, u, c)
     /\ ~processClaimImmediate(db, u, c, k).accepted
     /\ processClaimImmediate(db, u, c, k).kind = "InvalidVoucherCode"
     /\ processJob(db, u, c, k).accepted
     /\ processJob(db, u, c, k).db # db

\* ------------------------------------------ cache writes and COMMIT (C30)
\* C30: the cache writes of a claim happen only after its transaction has
\* committed: a step in which a claim transaction that has not committed
\* goes on leaves user:{id}:vouchers and claim:result:{key} as they are, and
\* a claim result is stored only for a committed claim.
C30_CacheWrittenAfterCommit ==
  [][/\ \A r \in Reqs :
          (req[r].pc \in {"tx_user", "tx_code"}
             /\ req'[r].pc \in {"tx_code", "tx_commit"}
             /\ req'[r].pc # req[r].pc)
          => countCache' = countCache /\ resultCache' = resultCache
     /\ \A k \in Keys :
          (jobs[k].state = "active" /\ jobs[k].pc = "tx_code"
             /\ jobs'[k].pc = "tx_commit")
          => countCache' = countCache /\ resultCache' = resultCache
     /\ \A k \in Keys :
          (resultCache'[k] # resultCache[k] /\ resultCache'[k] # NoResult
             /\ resultCache'[k].status = "success")
          => RowsOf(db, k) # {}]_vars

\* C30: user:{id}:vouchers holds claimed + 1 of a transaction that still
\* holds its row locks and has not committed
C30_CacheAheadOfCommit ==
  \E r \in Reqs :
     /\ req[r].pc = "tx_commit"
     /\ userLock[req[r].userId] = ReqOwner(r)
     /\ countCache[req[r].userId] = req[r].snap + 1
     /\ db.vouchers_claimed[req[r].userId] = req[r].snap

\* ------------------------------------------ the cached count (C31)
\* a claim or a refund that concerns user u has been called and has not
\* returned, or a job of u is waiting or being processed
InFlightFor(u) ==
  \/ \E r \in Reqs : req[r].pc \notin {"idle", "done"} /\ req[r].userId = u
  \/ \E k \in Keys : jobs[k].state \in {"waiting", "active"} /\ jobs[k].userId = u
  \/ \E f \in Refunds :
        /\ ref[f].pc \notin {"idle", "done"}
        /\ ref[f].claimId <= Len(db.voucher_claims)
        /\ db.voucher_claims[ref[f].claimId].user_id = u

\* C31: whenever user:{id}:vouchers is present and no claim or refund of
\* that user is in flight, its value is the committed vouchers_claimed.
C31_CachedCountIsCommitted ==
  \A u \in Users :
     (countCache[u] # NoCount /\ ~InFlightFor(u))
        => countCache[u] = db.vouchers_claimed[u]

\* C31: with nothing in flight the cached count of a user is above the
\* committed count after a refund
C31_StaleCountAfterRefund ==
  \E u \in Users :
     /\ ~InFlightFor(u)
     /\ countCache[u] # NoCount
     /\ countCache[u] > db.vouchers_claimed[u]
     /\ \E f \in Refunds : ref[f].outcome = "ok"

\* ------------------------------------------ breaker consistency (C32)
\* C32: whatever the order in which the calls admitted by one breaker
\* complete, a CLOSED breaker has failureCount < failureThreshold and
\* successCount = 0, and successCount < successThreshold in every state.
C32_BreakerConsistent ==
  /\ breaker.state = "CLOSED" => /\ breaker.failureCount < FailureThreshold
                                 /\ breaker.successCount = 0
  /\ breaker.successCount < SuccessThreshold
  /\ breaker.successCount >= 0 /\ breaker.failureCount >= 0

\* C32: a call admitted before the breaker opened has failed after it had
\* opened (failureCount is past the threshold)
C32_LateFailureWhileOpen ==
  /\ breaker.state = "OPEN"
  /\ breaker.failureCount > FailureThreshold
  /\ \E e \in Execs : exec[e].result = "error"

\* ------------------------------------------ claimed and success rows (C33)
\* the number of u's voucher_claims rows with status = success
SuccessCount(d, u) ==
  Cardinality({i \in 1..Len(d.voucher_claims) :
                 /\ d.voucher_claims[i].user_id = u
                 /\ d.voucher_claims[i].status = "success"})

C34_DomainRejectionNotCounted ==
  [][\A r \in Reqs :
       (/\ req[r].pc \in {"tx_user", "tx_code"}
        /\ req'[r].pc = "done"
        /\ req'[r].error \in {"LIMIT_EXCEEDED", "INVALID_VOUCHER"})
       => breaker' = breaker]_vars

\* C34: the breaker has counted a failure and the only failed call is a
\* premium claim rejected by the limit check of its transaction
C34_LimitRejectionCounted ==
  /\ breaker.failureCount = 1
  /\ \E r \in Reqs : /\ req[r].pc = "done" /\ req[r].error = "LIMIT_EXCEEDED"
                     /\ req[r].reason = "tx-limit"
  /\ \A r \in Reqs : req[r].error \in {"none", "LIMIT_EXCEEDED"}

\* ------------------------------------------ the breaker's timeout (C35)
\* the timer of execute (timeout: 5000 ms) fires while COMMIT of the claim
\* transaction is still outstanding: Promise.race rejects with 'Circuit
\* breaker timeout', onFailure runs and claimVoucher rethrows; the
\* transaction callback goes on running
PremiumTimeout(r) ==
  /\ req[r].pc = "tx_commit"
  /\ req' = [req EXCEPT ![r].pc = "detached", ![r].error = "INTERNAL",
                        ![r].reason = "breaker-timeout"]
  /\ breaker' = onFailure(breaker, clock)
  /\ UNCHANGED <<usage0, limiterVars, exec, probe>>
  /\ UNCHANGED <<issued, db, userLock, codeLock, claimLock, countCache,
                 resultCache, jobs, ref>>

\* COMMIT of a transaction whose caller has been answered already: the
\* writes become visible and the row locks are released; the settled race
\* ignores the result, so neither onSuccess nor cacheClaimResult runs
DetachedCommit(r) ==
  /\ req[r].pc = "detached"
  /\ LET u == req[r].userId
         c == req[r].voucherCode
         k == req[r].idempotencyKey
     IN  /\ db' = PremiumWrites(db, u, c, k).db
         /\ userLock' = [userLock EXCEPT ![u] = Free]
         /\ codeLock' = [codeLock EXCEPT ![c] = Free]
  /\ req' = [req EXCEPT ![r].pc = "done"]
  /\ UNCHANGED <<usage0, limiterVars, exec, probe>>
  /\ UNCHANGED <<issued, claimLock, countCache, resultCache, jobs, ref, breaker>>

NextTimeout ==
  \/ NextBurst
  \/ \E r \in Reqs : PremiumTimeout(r)
  \/ \E r \in Reqs : DetachedCommit(r)

SpecTimeout == InitRL /\ [][NextTimeout]_vars

\* C35: whenever claimVoucher of a premium user has ended with an error,
\* the breaker's timeout included, the claim transaction of that request
\* has not committed and does not commit later: no voucher_claims row of
\* the request exists in any later state.
C35_ErrorMeansNotCommitted ==
  \A r \in Reqs :
     (is_premium[req[r].userId] /\ req[r].error # "none")
        => RowsOf(db, req[r].idempotencyKey) = {}

\* C35: a premium claim was answered 'Circuit breaker timeout' and its
\* transaction has committed afterwards
C35_CommittedAfterTimeout ==
  \E r \in Reqs :
     /\ req[r].pc = "done" /\ req[r].reason = "breaker-timeout"
     /\ RowsOf(db, req[r].idempotencyKey) # {}
     /\ db.vouchers_claimed[req[r].userId] = 1
     /\ resultCache[req[r].idempotencyKey] = NoResult

\* ------------------------------------------ results and their users (C36)
\* the users on whose behalf a claim row or a job exists under request id k
OwnersOf(d, js, k) ==
  {d.voucher_claims[i].user_id : i \in RowsOf(d, k)}
    \cup {js[j].userId : j \in {x \in {k} : js[x].state # "none"}}

\* C36: a result stored under a request id is only returned to the user
\* whose request produced it: a claimVoucher call that is answered from
\* claim:result:{id} comes from a user who has a claim or a job under that
\* id, never from another user.
C36_ResultOnlyToItsUser ==
  [][\A r \in Reqs :
       (req[r].pc \in {"idle", "done"} /\ req'[r] # req[r]
          /\ req'[r].reason = "cached")
       => req'[r].userId \in OwnersOf(db, jobs, req'[r].idempotencyKey)]_vars

\* C36: a call of u2 has been answered with the stored result of u1's
\* claim, and nothing exists under the request id for u2
C36_OtherUsersResultReturned ==
  \E r \in Reqs :
     /\ req[r].pc = "done" /\ req[r].reason = "cached"
     /\ req[r].userId = "u2"
     /\ req[r].response.status = "success"
     /\ OwnersOf(db, jobs, req[r].idempotencyKey) = {"u1"}

\* ------------------------------- a failure between incr and expire (C37)
\* await client.expire(key, windowSeconds) rejects (connection lost, process
\* stopped): the call ends with the exception, the key keeps the value INCR
\* gave it and has no expiry
IPExpireFails(c) ==
  /\ ip.calls[c].pc = "incremented"
  /\ ip.calls[c].count = 1
  /\ ip' = [ip EXCEPT !.calls[c] = [pc |-> "idle", count |-> 0, epoch |-> 0]]
  /\ UNCHANGED <<clock, zset, zexpire, calls, rlLog, http, responses>>
  /\ UNCHANGED <<storeVars, exec, probe>>

NextIPFail ==
  \/ NextIP
  \/ \E c \in Calls : IPExpireFails(c)

SpecIPFail == InitRL /\ [][NextIPFail]_vars

\* C37: whenever no call stands between its incr and its expire, the key
\* rate_limit:ip:{addr} is absent or has an expiry set, also after a
\* failure between the incr and the expire.
C37_KeyAbsentOrExpiring ==
  (\A c \in Calls : ip.calls[c].pc # "incremented" \/ ip.calls[c].count # 1)
    => (IpLiveCount(clock) = 0 \/ ip.ttl # NoDate)

\* C37: more than a window after the start no call is running, the key has
\* no expiry and a value above max, and the last call was rejected: every
\* later call of the address is rejected too
C37_RejectedForEver ==
  /\ \A c \in Calls : ip.calls[c].pc = "idle"
  /\ ip.ttl = NoDate
  /\ ip.count > IPMax
  /\ clock > StartTime + IPWindow * 1000
  /\ Len(ip.log) > 0 /\ ~ip.log[Len(ip.log)].allowed

\* ------------------------------- attempts and the window's entries (C38)
\* the attempts made before attempt i whose timestamps are in the window
\* (t - window * 1000, t] of attempt i, t being its own timestamp
AttemptsInWindow(log, i) ==
  {j \in 1..(i - 1) : /\ log[j].now > log[i].now - RLWindow * 1000
                      /\ log[j].now <= log[i].now}

\* C38: every attempt, admitted or denied, counts in the user's sliding
\* window: an attempt at time t is admitted iff fewer than max earlier
\* attempts have timestamps in (t - window * 1000, t]; so an attempt that
\* follows window seconds without attempts is admitted.
C38_AdmittedIffFewerThanMax ==
  \A i \in 1..Len(rlLog) :
     rlLog[i].allowed <=> (Cardinality(AttemptsInWindow(rlLog, i)) < RLMax)

\* C38: an attempt was admitted although max earlier attempts had
\* timestamps inside its window
C38_AdmittedOverFullWindow ==
  \E i \in 1..Len(rlLog) :
     /\ rlLog[i].allowed
     /\ Cardinality(AttemptsInWindow(rlLog, i)) >= RLMax

\* ------------------------------------------ the soft pre-check (C39)
\* C39: the pre-check on the cached count never rejects a user who is below
\* the limit in the store: when a claimVoucher call fails with
\* LIMIT_EXCEEDED because of the cached count, the committed
\* vouchers_claimed is at least the user's voucher_limit.
C39_PrecheckRejectsOnlyAtLimit ==
  [][\A r \in Reqs :
       (/\ req[r].pc \in {"idle", "done"} /\ req'[r] # req[r]
        /\ req'[r].reason = "precheck")
       => db.vouchers_claimed[req'[r].userId]
            >= voucher_limit[req'[r].userId]]_vars

\* C39: a call was rejected by the pre-check with LIMIT_EXCEEDED on a
\* cached count at the limit, and the user has no claim counted in the
\* store
C39_RejectedBelowLimit ==
  \E r \in Reqs :
     /\ req[r].pc = "done" /\ req[r].reason = "precheck"
     /\ req[r].error = "LIMIT_EXCEEDED"
     /\ db.vouchers_claimed[req[r].userId] = 0
     /\ countCache[req[r].userId] # NoCount
     /\ countCache[req[r].userId] >= voucher_limit[req[r].userId]

\* ------------------------------------------ recovery of the breaker (C40)
\* the number of calls made while the wrapped action can fail; the calls
\* that complete later succeed
HealAfter == 6

\* the last instant at which the breaker exercised alone is called
LastInstant == StartTime + 60001

\* execute(fn) is called, by callers that keep calling
HealExecute(e) ==
  /\ exec[e].pc = "idle"
  /\ issued' = IF issued < HealAfter THEN issued + 1 ELSE issued
  /\ LET g == execute(breaker, clock)
     IN  /\ breaker' = g.breaker
         /\ exec' = [exec EXCEPT ![e] =
                       IF g.rejected
                       THEN [pc |-> "idle", result |-> "rejected"]
                       ELSE [pc |-> "running", result |-> "none"]]
  /\ UNCHANGED <<db, userLock, codeLock, claimLock, countCache, resultCache,
                 jobs, req, ref, usage0>>
  /\ UNCHANGED <<limiterVars, probe>>

\* fn rejects or the timeout wins the race, while the wrapped action can fail
HealFail(e) ==
  /\ issued < HealAfter
  /\ CBFail(e)

NextHeal ==
  \/ \E t \in BreakerInstants : CBTick(t)
  \/ \E e \in Execs : HealExecute(e)
  \/ \E e \in Execs : CBSucceed(e)
  \/ \E e \in Execs : HealFail(e)

\* time passes, callers keep calling, and the race in execute settles
SpecHeal ==
  /\ InitRL /\ [][NextHeal]_vars
  /\ WF_vars(\E t \in BreakerInstants : CBTick(t))
  /\ WF_vars(\E e \in Execs : HealExecute(e))
  /\ WF_vars(\E e \in Execs : CBSucceed(e))

\* C40: recovery: when every call that completes from now on succeeds, an
\* OPEN or HALF_OPEN breaker whose nextAttempt is reached becomes CLOSED:
\* each success of a HALF_OPEN breaker closes it or adds 1 to successCount
\* below successThreshold, and the breaker does not stay OPEN or HALF_OPEN
\* for ever.
C40_BreakerRecovers ==
  /\ [][\A e \in Execs :
          (breaker.state = "HALF_OPEN" /\ Returned(e, "ok"))
          => \/ breaker'.state = "CLOSED"
             \/ /\ breaker'.state = "HALF_OPEN"
                /\ breaker'.successCount = breaker.successCount + 1
                /\ breaker'.successCount < SuccessThreshold]_vars
  /\ (/\ issued >= HealAfter
      /\ breaker.state # "CLOSED"
      /\ breaker.nextAttempt <= LastInstant)
       ~> (breaker.state = "CLOSED")

\* C40: the breaker was opened, nextAttempt has passed, the calls made
\* since have succeeded and the breaker is CLOSED again
C40_ClosedAgain ==
  /\ issued >= HealAfter
  /\ breaker.state = "CLOSED"
  /\ breaker.nextAttempt > StartTime
  /\ clock >= breaker.nextAttempt
  /\ \A e \in Execs : exec[e].pc = "idle" /\ exec[e].result = "ok"

====
